---- MODULE Spec2Model ----
(***************************************************************************)
(* DirectML graph fusion transformer (DmlGraphFusionTransformer::ApplyImpl *)
(* and its helpers): the optimisation pass that replaces every DML graph   *)
(* partition of an ONNX graph by one fused node backed by a compiled       *)
(* operator, and moves or copies the initializers the partition consumes   *)
(* into the partition's private transferredInitializerMap.                 *)
(***************************************************************************)
EXTENDS Naturals, Sequences, FiniteSets, TLC

(***************************************************************************)
(* Bounds of the model.                                                    *)
(***************************************************************************)
MaxNodes == 3
MaxInits == 2
MaxPasses == 2
ReloadNodes == 1
MaxKernels == 2
MaxRenames == 1
OtherPartitions == 1

(***************************************************************************)
(* Names.  std::to_string on an unsigned value is its decimal spelling.    *)
(***************************************************************************)
Digit == <<"0", "1", "2", "3", "4", "5", "6", "7", "8", "9">>

RECURSIVE to_string(_)
to_string(n) ==
    IF n < 10 THEN Digit[n + 1]
    ELSE to_string(n \div 10) \o Digit[(n % 10) + 1]

DML_GRAPH_FUSION_NODE_NAME_PREFIX == "DmlFusedNode_"
DML_GRAPH_FUSION_NODE_DOMAIN == "DmlFusedNodeDomain"
kDmlExecutionProvider == "DmlExecutionProvider"

Range(s) == { s[i] : i \in DOMAIN s }

SetMin(S) == CHOOSE x \in S : \A y \in S : x <= y

InitializerName(k) == "W" \o to_string(k)
InitializerNames == { InitializerName(k) : k \in 1..MaxInits }
OutputName(i) == "o" \o to_string(i)
GraphInputName == "X"
NoInitializer == "-"

\* The name a later transformer gives a node argument it renames.
RenamedName(nm) == nm \o "_renamed"

\* The order std::set<std::string> keeps the tensor names of the model in.
NameOrder ==
    [k \in 1..MaxInits |-> InitializerName(k)] \o <<GraphInputName>>
        \o [i \in 1..MaxNodes |-> OutputName(i)]
        \o [k \in 1..MaxInits |-> RenamedName(InitializerName(k))]
        \o <<RenamedName(GraphInputName)>>
        \o [i \in 1..MaxNodes |-> RenamedName(OutputName(i))]

SortNames(S) == SelectSeq(NameOrder, LAMBDA x : x \in S)

\* onnx::TensorProto of an initializer, as stored by the graph.
TensorProto(w) == [name |-> w, raw_data |-> CHOOSE k \in 1..MaxInits : InitializerName(k) = w]
EmptyTensorProto == [name |-> "", raw_data |-> 0]

(***************************************************************************)
(* The graphs a pass runs on: node i (in topological order) consumes the   *)
(* outputs of a set of earlier nodes, the graph input when it has no       *)
(* producer, and at most one initializer.                                  *)
(***************************************************************************)
OpNode(i, producers, init) ==
    [ inputs   |-> SelectSeq([p \in 1..MaxNodes |-> OutputName(p)],
                             LAMBDA nm : \E p \in producers : nm = OutputName(p))
                   \o (IF producers = {} THEN <<GraphInputName>> ELSE <<>>)
                   \o (IF init = NoInitializer THEN <<>> ELSE <<init>>),
      outputs  |-> <<OutputName(i)>>,
      fused    |-> FALSE,
      name     |-> "",
      domain   |-> "",
      since_version |-> 0,
      provider |-> "" ]

NodeChoice(n) == [producers : SUBSET (1..(n - 1)), init : InitializerNames \cup {NoInitializer}]

GraphsOf(n) ==
    { [i \in 1..n |-> OpNode(i, ch[i].producers, ch[i].init)] :
        ch \in { c \in [1..n -> NodeChoice(n)] : \A i \in 1..n : c[i].producers \subseteq 1..(i - 1) } }

Capabilities == {"none", "graph"}

(***************************************************************************)
(* Graph helpers.                                                          *)
(***************************************************************************)
\* Nodes of ns that produce a tensor node n consumes.
Producers(ns, n) ==
    { m \in DOMAIN ns \ {n} : \E k \in DOMAIN ns[n].inputs : ns[n].inputs[k] \in Range(ns[m].outputs) }

\* Tensors no node of ns consumes: the graph's outputs.
GraphOutputs(ns) ==
    { nm \in UNION { Range(ns[m].outputs) : m \in DOMAIN ns } :
        \A c \in DOMAIN ns : nm \notin Range(ns[c].inputs) }

RECURSIVE TopologicalOrder(_, _)
TopologicalOrder(ns, done) ==
    LET ready == { n \in DOMAIN ns \ Range(done) : Producers(ns, n) \subseteq Range(done) }
    IN IF ready = {} THEN done
       ELSE TopologicalOrder(ns, Append(done, SetMin(ready)))

(***************************************************************************)
(* BuildPartitions (GraphPartitioner): one partition per visited node,     *)
(* DML graph nodes joined to the DML graph partitions of their producers   *)
(* unless the merge closes a cycle between partitions.                     *)
(***************************************************************************)
\* The kernel lookup finds a kernel for the node: a registered operator
\* kernel, or the fused kernel registered under the fused node's signature.
IsDmlNode(ns, caps, reg, n) ==
    IF ns[n].fused
    THEN \E k \in reg : /\ k.name = ns[n].name
                        /\ k.domain = ns[n].domain
                        /\ k.since_version = ns[n].since_version
                        /\ k.provider = kDmlExecutionProvider
    ELSE caps[n] # "none"

\* The node's kernel can also emit itself as a node of a DML graph.
IsDmlGraphNode(ns, caps, reg, n) == ~ns[n].fused /\ caps[n] = "graph"

RECURSIVE GetRootMergedPartition(_, _)
GetRootMergedPartition(ps, p) ==
    IF ps[p].mergedPartition = 0 THEN p
    ELSE GetRootMergedPartition(ps, ps[p].mergedPartition)

IsRootPartition(ps, p) == GetRootMergedPartition(ps, p) = p

RootPartitions(ps) == { p \in DOMAIN ps : IsRootPartition(ps, p) }

NewPartition(n, isDml, isDmlGraph) ==
    [ mergedPartition |-> 0,
      isDmlPartition |-> isDml,
      isDmlGraphPartition |-> isDmlGraph,
      nodeIndices |-> <<n>>,
      inputs |-> <<>>,
      outputs |-> <<>> ]

\* Root partitions that consume a tensor produced in root partition r.
PartitionSuccessors(ns, ps, r) ==
    { s \in RootPartitions(ps) \ {r} :
        \E a \in Range(ps[r].nodeIndices), b \in Range(ps[s].nodeIndices) : a \in Producers(ns, b) }

RECURSIVE PartitionsReachable(_, _, _)
PartitionsReachable(ns, ps, S) ==
    LET T == S \cup UNION { PartitionSuccessors(ns, ps, r) : r \in S }
    IN IF T = S THEN S ELSE PartitionsReachable(ns, ps, T)

\* Merging the root partitions of M into one closes a cycle: a partition
\* outside M depends on M and M depends on it.
MergeCreatesCycle_Never(ns, ps, M) == FALSE
MergeCreatesCycle(ns, ps, M) ==
    \E z \in PartitionsReachable(ns, ps, M) \ M :
        PartitionsReachable(ns, ps, {z}) \cap M # {}

\* The candidates, lowest index first, that can join M without a cycle.
MergeablePartitions_None(ns, ps, cands, M) == M
RECURSIVE MergeablePartitions(_, _, _, _)
MergeablePartitions(ns, ps, cands, M) ==
    IF cands = {} THEN M
    ELSE LET c == SetMin(cands)
         IN IF MergeCreatesCycle(ns, ps, M \cup {c})
            THEN MergeablePartitions(ns, ps, cands \ {c}, M)
            ELSE MergeablePartitions(ns, ps, cands \ {c}, M \cup {c})

RECURSIVE ConcatNodeIndices(_, _)
ConcatNodeIndices(ps, S) ==
    IF S = {} THEN <<>>
    ELSE ps[SetMin(S)].nodeIndices \o ConcatNodeIndices(ps, S \ {SetMin(S)})

\* GraphPartition::Merge: the merged partitions point at target, which
\* takes their nodes; n is the node being added.
MergeInto_NodesLeftBehind(ps, target, merged, n) ==
    [ p \in DOMAIN ps |->
        IF p = target
        THEN [ps[p] EXCEPT !.nodeIndices = ps[target].nodeIndices \o <<n>>]
        ELSE IF p \in merged
             THEN [ps[p] EXCEPT !.mergedPartition = target]
             ELSE ps[p] ]
MergeInto(ps, target, merged, n) ==
    [ p \in DOMAIN ps |->
        IF p = target
        THEN [ps[p] EXCEPT !.nodeIndices = ConcatNodeIndices(ps, merged) \o <<n>>]
        ELSE IF p \in merged
             THEN [ps[p] EXCEPT !.mergedPartition = target]
             ELSE ps[p] ]

VisitNode(ns, caps, reg, ps, n) ==
    IF ~IsDmlGraphNode(ns, caps, reg, n)
    THEN Append(ps, NewPartition(n, IsDmlNode(ns, caps, reg, n), FALSE))
    ELSE LET withNew == Append(ps, NewPartition(n, TRUE, TRUE))
             t == Len(withNew)
             owner(m) == CHOOSE r \in RootPartitions(ps) : m \in Range(ps[r].nodeIndices)
             cands == { r \in { owner(m) : m \in Producers(ns, n) } : ps[r].isDmlGraphPartition }
             merged == MergeablePartitions(ns, withNew, cands, {t}) \ {t}
         IN IF merged = {} THEN withNew
            ELSE MergeInto(ps, SetMin(merged), merged, n)

RECURSIVE VisitNodes(_, _, _, _, _)
VisitNodes(ns, caps, reg, order, ps) ==
    IF order = <<>> THEN ps
    ELSE VisitNodes(ns, caps, reg, Tail(order), VisitNode(ns, caps, reg, ps, Head(order)))

\* Tensors the nodes of S consume and do not produce, in set order.
PartitionInputs(ns, S) ==
    SortNames({ nm \in UNION { Range(ns[m].inputs) : m \in S } :
                  \A m \in S : nm \notin Range(ns[m].outputs) })

\* Tensors the nodes of S produce for a node outside S or for the graph.
PartitionOutputs(ns, S) ==
    SortNames({ nm \in UNION { Range(ns[m].outputs) : m \in S } :
                  \/ nm \in GraphOutputs(ns)
                  \/ \E c \in DOMAIN ns \ S : nm \in Range(ns[c].inputs) })

BuildPartitions(ns, caps, reg) ==
    LET ps == VisitNodes(ns, caps, reg, TopologicalOrder(ns, <<>>), <<>>)
    IN [ p \in DOMAIN ps |->
           [ps[p] EXCEPT !.inputs = PartitionInputs(ns, Range(ps[p].nodeIndices)),
                         !.outputs = PartitionOutputs(ns, Range(ps[p].nodeIndices))] ]

(***************************************************************************)
(* State.                                                                  *)
(***************************************************************************)
VARIABLES
    nodes,                     \* Graph: node index -> node
    nodeCount,                 \* Graph: number of node slots ever allocated
    initializers,              \* Graph: initializer name -> TensorProto
    capability,                \* registered operator kernels: node -> capability
    required,                  \* initializers some kernel needs as constants
    partitionKernelPrefixVal,  \* ExecutionProviderImpl: fused-kernel name counter
    registry,                  \* ExecutionProviderImpl: the kernel registry
    kernels,                   \* the kernels the registered create functions have made
    other,                     \* a second ApplyImpl invocation on the same provider
    modified,                  \* ApplyImpl's bool& modified, owned by the caller
    pc,                        \* position of ApplyImpl
    status,                    \* how the last ApplyImpl ended
    partitions,                \* ApplyImpl local
    initializerPartitionMap,   \* ApplyImpl local
    requiredInitializerMap,    \* ApplyImpl local
    partitionIndex,            \* ApplyImpl loop variable (0-based, as in the code)
    inputIndex,                \* position in partition->GetInputs() (1-based)
    transferredInitializerMap, \* partition index -> the map made for it
    partitionKernelPrefix,     \* ApplyImpl local
    subGraph,                  \* FusePartitionAndRegisterKernel local
    fusedNode,                 \* index of the node BeginFuseSubGraph returned
    compiled,                  \* CreateIDmlCompiledOperatorAndRegisterKernel locals
    hist                       \* history of the run, read by the properties only

vars == << nodes, nodeCount, initializers, capability, required,
           partitionKernelPrefixVal, registry, kernels, other, modified, pc, status,
           partitions, initializerPartitionMap, requiredInitializerMap, partitionIndex,
           inputIndex, transferredInitializerMap, partitionKernelPrefix,
           subGraph, fusedNode, compiled, hist >>

graphVars == << nodes, nodeCount, initializers >>
oracleVars == << capability, required >>
fuseVars == << subGraph, fusedNode, compiled >>

EmptyMap == [x \in {} |-> EmptyTensorProto]
MapPut(m, k, v) == [x \in DOMAIN m \cup {k} |-> IF x = k THEN v ELSE m[x]]
MapRemove(m, k) == [x \in DOMAIN m \ {k} |-> m[x]]

NoSubGraph == [name |-> "", domain |-> "", since_version |-> 0,
               inputs |-> <<>>, outputs |-> <<>>, nodes |-> <<>>]
\* GraphDescBuilder::GraphDesc and DML_GRAPH_DESC before they are filled.
NoGraphDesc ==
    [nodes |-> <<>>, inputEdges |-> <<>>, outputEdges |-> <<>>, intermediateEdges |-> <<>>]
NoDmlGraphDesc ==
    [InputCount |-> 0, OutputCount |-> 0, NodeCount |-> 0, Nodes |-> <<>>,
     InputEdgeCount |-> 0, InputEdges |-> <<>>, OutputEdgeCount |-> 0, OutputEdges |-> <<>>,
     IntermediateEdgeCount |-> 0, IntermediateEdges |-> <<>>]

NoCompiled == [fusedNodeInputArgOriginalNames |-> <<>>,
               fusedNodeOutputArgOriginalNames |-> <<>>,
               inputsConstant |-> <<>>, graphDesc |-> NoGraphDesc,
               dmlGraphDesc |-> NoDmlGraphDesc, compiledOperator |-> FALSE,
               outputShapes |-> FALSE]

NoSnapshot ==
    [ nodes |-> <<>>, initializers |-> EmptyMap, registry |-> {},
      partitionKernelPrefixVal |-> 0, modified |-> FALSE ]

InitHist ==
    [ pass |-> 0,            \* number of ApplyImpl calls started
      loads |-> 1,           \* number of graphs the provider has been given
      fused |-> <<>>,        \* one record per fused node created, in order
      prefixVal |-> 0,       \* the counter value GetPartitionKernelPrefixVal returned last
      extracted |-> <<>>,    \* one record per ExtractInitializedTensor that succeeded
      passStart |-> NoSnapshot,  \* the graph and the provider when ApplyImpl was entered
      fuseStart |-> NoSnapshot,  \* the same when FusePartitionAndRegisterKernel was entered
      built |-> <<>>,        \* the partitions as BuildPartitions returned them
      compileCalls |-> 0,    \* CompileGraph calls for the partition being fused
      compiles |-> 0 ]       \* CompileGraph calls since the provider was made

Snapshot ==
    [ nodes |-> nodes, initializers |-> initializers, registry |-> registry,
      partitionKernelPrefixVal |-> partitionKernelPrefixVal, modified |-> modified ]

\* The second invocation before its loop reaches the first partition.
OtherIdle ==
    [ pc |-> "read", partitionIndex |-> 0, partitionKernelPrefix |-> "",
      prefixVal |-> 0, fused |-> <<>> ]

\* The state ApplyImpl is first called in, for a graph of n nodes and the
\* caller's flag m.
InitWithModified(n, m) ==
    /\ nodes \in GraphsOf(n)
    /\ nodeCount = n
    /\ initializers = [w \in InitializerNames |-> TensorProto(w)]
    /\ capability \in [1..n -> Capabilities]
    /\ required \in SUBSET InitializerNames
    /\ partitionKernelPrefixVal = 0
    /\ registry = {}
    /\ kernels = <<>>
    /\ other = OtherIdle
    /\ modified = m
    /\ pc = "idle"
    /\ status = "none"
    /\ partitions = <<>>
    /\ initializerPartitionMap = EmptyMap
    /\ requiredInitializerMap = {}
    /\ partitionIndex = 0
    /\ inputIndex = 1
    /\ transferredInitializerMap = EmptyMap
    /\ partitionKernelPrefix = ""
    /\ subGraph = NoSubGraph
    /\ fusedNode = 0
    /\ compiled = NoCompiled
    /\ hist = InitHist

InitWith(n) == InitWithModified(n, FALSE)

Init == InitWith(MaxNodes)

(***************************************************************************)
(* GetInitializerToPartitionMap: for every initializer of the graph, the   *)
(* indices of the root partitions that list it as an input, one entry per  *)
(* listing, in partition order.                                            *)
(***************************************************************************)
\* A partition that was merged into another is passed over.
CountsPartition_AbsorbedToo(ps, p) == TRUE
CountsPartition(ps, p) == GetRootMergedPartition(ps, p) = p

RECURSIVE PartitionsListing(_, _, _)
PartitionsListing(ps, w, p) ==
    IF p > Len(ps) THEN <<>>
    ELSE (IF ~CountsPartition(ps, p)
          THEN <<>>
          ELSE [k \in 1..Len(SelectSeq(ps[p].inputs, LAMBDA x : x = w)) |-> p - 1])
         \o PartitionsListing(ps, w, p + 1)

GetInitializerToPartitionMap_SkipsFirst(inits, ps) ==
    LET listed == { w \in DOMAIN inits : PartitionsListing(ps, w, 2) # <<>> }
    IN [w \in listed |-> PartitionsListing(ps, w, 2)]
GetInitializerToPartitionMap(inits, ps) ==
    LET listed == { w \in DOMAIN inits : PartitionsListing(ps, w, 1) # <<>> }
    IN [w \in listed |-> PartitionsListing(ps, w, 1)]

(***************************************************************************)
(* ApplyImpl.                                                              *)
(***************************************************************************)
CurrentPartition == partitions[partitionIndex + 1]
CurrentInput == CurrentPartition.inputs[inputIndex]

\* ApplyImpl up to its loop: BuildPartitions and the initializer map.
ApplyImplBegin ==
    /\ pc \in {"idle", "done"}
    /\ hist.pass < MaxPasses
    /\ kernels = <<>>    \* a session runs its graph transformers before it creates kernels
    /\ LET ps == BuildPartitions(nodes, capability, registry)
       IN /\ partitions' = ps
          /\ initializerPartitionMap' = GetInitializerToPartitionMap(initializers, ps)
          /\ hist' = [hist EXCEPT !.pass = @ + 1,
                                  !.built = ps,
                                  !.passStart = Snapshot]
    /\ requiredInitializerMap' = required
    /\ partitionIndex' = 0
    /\ inputIndex' = 1
    /\ transferredInitializerMap' = EmptyMap
    /\ partitionKernelPrefix' = ""
    /\ pc' = "loop"
    /\ status' = "running"
    /\ UNCHANGED << graphVars, oracleVars, other, partitionKernelPrefixVal, registry, kernels, modified, fuseVars >>

\* The loop's continue: a partition merged into another, or not a DML one.
SkipsPartition_MergedOnly(ps, p) == GetRootMergedPartition(ps, p) # p
SkipsPartition(ps, p) ==
    GetRootMergedPartition(ps, p) # p \/ ~ps[p].isDmlPartition

\* The body that resolves initializers and fuses is entered.
EntersFusion_Always(ps, p) == TRUE
EntersFusion(ps, p) == ps[p].isDmlGraphPartition

NextPartition ==
    /\ pc = "loop"
    /\ partitionIndex < Len(partitions)
    /\ \/ /\ SkipsPartition(partitions, partitionIndex + 1)
          /\ partitionIndex' = partitionIndex + 1
          /\ UNCHANGED << pc, inputIndex, transferredInitializerMap >>
       \/ /\ ~SkipsPartition(partitions, partitionIndex + 1)
          /\ ~EntersFusion(partitions, partitionIndex + 1)
          /\ transferredInitializerMap' =
                 [i \in DOMAIN transferredInitializerMap \cup {partitionIndex} |->
                     IF i = partitionIndex THEN EmptyMap ELSE transferredInitializerMap[i]]
          /\ partitionIndex' = partitionIndex + 1
          /\ UNCHANGED << pc, inputIndex >>
       \/ /\ ~SkipsPartition(partitions, partitionIndex + 1)
          /\ EntersFusion(partitions, partitionIndex + 1)
          /\ transferredInitializerMap' =
                 [i \in DOMAIN transferredInitializerMap \cup {partitionIndex} |->
                     IF i = partitionIndex THEN EmptyMap ELSE transferredInitializerMap[i]]
          /\ inputIndex' = 1
          /\ pc' = "inputs"
          /\ UNCHANGED partitionIndex
    /\ UNCHANGED << graphVars, oracleVars, other, partitionKernelPrefixVal, registry, kernels, modified,
                    status, partitions, initializerPartitionMap, requiredInitializerMap,
                    partitionKernelPrefix, fuseVars, hist >>

\* The loop ends: return Status::OK().
ApplyImplReturn_SetsModified ==
    /\ pc = "loop"
    /\ partitionIndex = Len(partitions)
    /\ pc' = "done"
    /\ status' = "OK"
    /\ modified' = TRUE
    /\ UNCHANGED << graphVars, oracleVars, other, partitionKernelPrefixVal, registry, kernels,
                    partitions, initializerPartitionMap, requiredInitializerMap,
                    partitionIndex, inputIndex, transferredInitializerMap,
                    partitionKernelPrefix, fuseVars, hist >>
ApplyImplReturn ==
    /\ pc = "loop"
    /\ partitionIndex = Len(partitions)
    /\ pc' = "done"
    /\ status' = "OK"
    /\ UNCHANGED << graphVars, oracleVars, other, partitionKernelPrefixVal, registry, kernels, modified,
                    partitions, initializerPartitionMap, requiredInitializerMap,
                    partitionIndex, inputIndex, transferredInitializerMap,
                    partitionKernelPrefix, fuseVars, hist >>

\* An initializer listed by more than one partition stays in the graph.
IsShared_AtLeastOne(ipm, w) == Len(ipm[w]) >= 1
IsShared_MoreThanTwo(ipm, w) == Len(ipm[w]) > 2
IsShared(ipm, w) == Len(ipm[w]) > 1

\* (*transferredInitializerMap)[input] = *tensor
CopyInitializer_Skipped(map, inits, input) == map
CopyInitializer(map, inits, input) == MapPut(map, input, inits[input])

\* graph.ExtractInitializedTensor(tensor->name(), (*transferredInitializerMap)[input])
\* when it succeeds: the tensor is moved into the map and leaves the graph.
ExtractedMap_Dropped(map, inits, input) == map
ExtractedMap(map, inits, input) == MapPut(map, input, inits[input])
ExtractedStore_Kept(inits, input) == inits
ExtractedStore(inits, input) == MapRemove(inits, inits[input].name)

\* A write through the shared pointer ApplyImpl made for partition index:
\* std::make_shared gives every partition a map of its own.
StoreMap_OneMapForAll(maps, index, m) == [i \in DOMAIN maps |-> m]
StoreMap(maps, index, m) == [maps EXCEPT ![index] = m]

\* The loop over partition->GetInputs() has visited every input.
InputsResolved_BeforeTheLoop(partition, index) == TRUE
InputsResolved(partition, index) == index > Len(partition.inputs)

\* ORT_RETURN_IF_ERROR: the error status leaves ApplyImpl.
ReturnIfError_Ignored ==
    /\ pc' = "inputs"
    /\ status' = "running"
ReturnIfError ==
    /\ pc' = "returned"
    /\ status' = "error"

\* One iteration of the loop over partition->GetInputs().
PopulateTransferredInitializer ==
    /\ pc = "inputs"
    /\ ~InputsResolved(CurrentPartition, inputIndex)
    /\ LET input == CurrentInput
           map == transferredInitializerMap[partitionIndex]
           put(m) == StoreMap(transferredInitializerMap, partitionIndex, m)
       IN \/ /\ input \notin DOMAIN initializers
             /\ inputIndex' = inputIndex + 1
             /\ UNCHANGED << initializers, transferredInitializerMap, pc, status, hist >>
          \/ /\ input \in DOMAIN initializers
             /\ IsShared(initializerPartitionMap, input)
             /\ transferredInitializerMap' =
                    (IF input \in requiredInitializerMap
                     THEN put(CopyInitializer(map, initializers, input))
                     ELSE transferredInitializerMap)
             /\ inputIndex' = inputIndex + 1
             /\ UNCHANGED << initializers, pc, status, hist >>
          \/ /\ input \in DOMAIN initializers
             /\ ~IsShared(initializerPartitionMap, input)
             /\ transferredInitializerMap' = put(ExtractedMap(map, initializers, input))
             /\ initializers' = ExtractedStore(initializers, input)
             /\ hist' = [hist EXCEPT !.extracted =
                            Append(@, [load |-> hist.loads, pass |-> hist.pass,
                                       partitionIndex |-> partitionIndex, name |-> input])]
             /\ inputIndex' = inputIndex + 1
             /\ UNCHANGED << pc, status >>
          \/ \* ExtractInitializedTensor returns an error: ORT_RETURN_IF_ERROR
             /\ input \in DOMAIN initializers
             /\ ~IsShared(initializerPartitionMap, input)
             /\ transferredInitializerMap' = put(MapPut(map, input, EmptyTensorProto))
             /\ ReturnIfError
             /\ UNCHANGED << initializers, inputIndex, hist >>
    /\ UNCHANGED << nodes, nodeCount, oracleVars, other, partitionKernelPrefixVal, registry, kernels,
                    modified, partitions, initializerPartitionMap, requiredInitializerMap,
                    partitionIndex, partitionKernelPrefix, fuseVars >>

\* std::to_string(m_providerImpl->GetPartitionKernelPrefixVal()) + "_"
GetPartitionKernelPrefix ==
    /\ pc = "inputs"
    /\ InputsResolved(CurrentPartition, inputIndex)
    /\ partitionKernelPrefix' = to_string(partitionKernelPrefixVal) \o "_"
    /\ hist' = [hist EXCEPT !.prefixVal = partitionKernelPrefixVal]
    /\ pc' = "increase"
    /\ UNCHANGED << graphVars, oracleVars, other, partitionKernelPrefixVal, registry, kernels, modified,
                    status, partitions, initializerPartitionMap, requiredInitializerMap,
                    partitionIndex, inputIndex, transferredInitializerMap, fuseVars >>

\* m_providerImpl->IncreasePartitionKernelPrefixVal()
IncreasePartitionKernelPrefixVal_Skipped ==
    /\ pc = "increase"
    /\ pc' = "fuse"
    /\ UNCHANGED << graphVars, oracleVars, other, partitionKernelPrefixVal, registry, kernels,
                    modified, status, partitions,
                    initializerPartitionMap, requiredInitializerMap, partitionIndex,
                    inputIndex, transferredInitializerMap, partitionKernelPrefix,
                    fuseVars, hist >>
IncreasePartitionKernelPrefixVal ==
    /\ pc = "increase"
    /\ partitionKernelPrefixVal' = partitionKernelPrefixVal + 1
    /\ pc' = "fuse"
    /\ UNCHANGED << graphVars, oracleVars, other, registry, kernels, modified, status, partitions,
                    initializerPartitionMap, requiredInitializerMap, partitionIndex,
                    inputIndex, transferredInitializerMap, partitionKernelPrefix,
                    fuseVars, hist >>

(***************************************************************************)
(* FusePartitionAndRegisterKernel.                                         *)
(***************************************************************************)
\* def->name
FusedNodeName_NoCounter(prefix, index) ==
    DML_GRAPH_FUSION_NODE_NAME_PREFIX \o to_string(index)
FusedNodeName_OneBased(prefix, index) ==
    DML_GRAPH_FUSION_NODE_NAME_PREFIX \o prefix \o to_string(index + 1)
FusedNodeName(prefix, index) ==
    DML_GRAPH_FUSION_NODE_NAME_PREFIX \o prefix \o to_string(index)

\* def->inputs and def->outputs: the partition's lists, copied in order.
MetaDefInputs_FromOutputs(partition) == partition.outputs
MetaDefInputs(partition) == partition.inputs
MetaDefOutputs(partition) == partition.outputs

\* Graph::BeginFuseSubGraph: the fused node is created from the meta
\* definition; the nodes of the sub-graph stay in the graph.
FusedNodeOf(sg) ==
    [ inputs   |-> sg.inputs,
      outputs  |-> sg.outputs,
      fused    |-> TRUE,
      name     |-> sg.name,
      domain   |-> sg.domain,
      since_version |-> sg.since_version,
      provider |-> kDmlExecutionProvider ]

BeginFuseSubGraph(ns, index, sg) ==
    [i \in DOMAIN ns \cup {index} |-> IF i = index THEN FusedNodeOf(sg) ELSE ns[i]]

\* Graph::FinalizeFuseSubGraph: the nodes of the sub-graph leave the graph.
FinalizeFuseSubGraph(ns, sg) ==
    [i \in DOMAIN ns \ Range(sg.nodes) |-> ns[i]]

\* From the assert to SetExecutionProviderType on the node BeginFuseSubGraph made.
BeginFuse ==
    /\ pc = "fuse"
    /\ LET partition == CurrentPartition
           sg == [ name |-> FusedNodeName(partitionKernelPrefix, partitionIndex),
                   domain |-> DML_GRAPH_FUSION_NODE_DOMAIN,
                   since_version |-> 1,
                   inputs |-> MetaDefInputs(partition),
                   outputs |-> MetaDefOutputs(partition),
                   nodes |-> partition.nodeIndices ]
       IN /\ subGraph' = sg
          /\ partitions' = [partitions EXCEPT ![partitionIndex + 1].nodeIndices = <<>>]
          /\ nodes' = BeginFuseSubGraph(nodes, nodeCount + 1, sg)
          /\ nodeCount' = nodeCount + 1
          /\ fusedNode' = nodeCount + 1
          /\ hist' = [hist EXCEPT !.fused =
                                      Append(@, [load |-> hist.loads, pass |-> hist.pass,
                                                 partitionIndex |-> partitionIndex,
                                                 prefixVal |-> hist.prefixVal,
                                                 node |-> nodeCount + 1,
                                                 nodes |-> sg.nodes,
                                                 name |-> sg.name,
                                                 inputs |-> partition.inputs,
                                                 outputs |-> partition.outputs]),
                                  !.fuseStart = Snapshot,
                                  !.compileCalls = 0]
    /\ compiled' = NoCompiled
    /\ pc' = "describe"
    /\ UNCHANGED << initializers, oracleVars, other, partitionKernelPrefixVal, registry, kernels, modified,
                    status, initializerPartitionMap, requiredInitializerMap, partitionIndex,
                    inputIndex, transferredInitializerMap, partitionKernelPrefix >>

(***************************************************************************)
(* CreateIDmlCompiledOperatorAndRegisterKernel.                            *)
(***************************************************************************)
\* GraphKernelHelper::GetGraphInputConstness: the input's original name has
\* an entry in the transferred initializers.
GetGraphInputConstness(index, names, map) == names[index] \in DOMAIN map

\* std::vector<uint8_t> inputsConstant(graphInputCount) and the loop that
\* fills it, one entry per input of the fused node.
InputsConstant_LoopNotRun(graphInputCount, names, map) ==
    [index \in 1..graphInputCount |-> FALSE]
InputsConstant(graphInputCount, names, map) ==
    [index \in 1..graphInputCount |-> GetGraphInputConstness(index, names, map)]

Throw ==
    /\ pc' = "threw"
    /\ status' = "exception"

\* BuildGraphDesc has returned its descriptor (a partition has a node).
GraphDescBuilt == compiled.graphDesc.nodes # <<>>

RECURSIVE SeqConcat(_)
SeqConcat(ss) == IF ss = <<>> THEN <<>> ELSE Head(ss) \o SeqConcat(Tail(ss))

PositionOf(seq, x) == CHOOSE k \in DOMAIN seq : seq[k] = x

\* GraphDescBuilder::BuildGraphDesc: one operator per node of the sub-graph,
\* in the sub-graph's order; an input edge for each node input that is an
\* input of the fused node, an intermediate edge for each node input made
\* by another node of the sub-graph, an output edge for each output of the
\* fused node.  Indices count from zero.
GraphDescBuilder_BuildGraphDesc(ns, sg) ==
    LET node(p) == ns[sg.nodes[p]]
        madeInside(t) ==
            { q \in 1..Len(sg.nodes) : t \in Range(node(q).outputs) }
    IN [ nodes |-> [p \in 1..Len(sg.nodes) |-> [op |-> sg.nodes[p]]],
         inputEdges |->
            SeqConcat([p \in 1..Len(sg.nodes) |->
                SeqConcat([k \in 1..Len(node(p).inputs) |->
                    IF node(p).inputs[k] \in Range(sg.inputs)
                    THEN << [ GraphInputIndex |-> PositionOf(sg.inputs, node(p).inputs[k]) - 1,
                              ToNodeIndex |-> p - 1,
                              ToNodeInputIndex |-> k - 1 ] >>
                    ELSE <<>>])]),
         intermediateEdges |->
            SeqConcat([p \in 1..Len(sg.nodes) |->
                SeqConcat([k \in 1..Len(node(p).inputs) |->
                    IF madeInside(node(p).inputs[k]) # {}
                    THEN LET q == CHOOSE q \in madeInside(node(p).inputs[k]) : TRUE
                         IN << [ FromNodeIndex |-> q - 1,
                                 FromNodeOutputIndex |->
                                     PositionOf(node(q).outputs, node(p).inputs[k]) - 1,
                                 ToNodeIndex |-> p - 1,
                                 ToNodeInputIndex |-> k - 1 ] >>
                    ELSE <<>>])]),
         outputEdges |->
            [k \in 1..Len(sg.outputs) |->
                LET q == CHOOSE q \in madeInside(sg.outputs[k]) : TRUE
                IN [ FromNodeIndex |-> q - 1,
                     FromNodeOutputIndex |-> PositionOf(node(q).outputs, sg.outputs[k]) - 1,
                     GraphOutputIndex |-> k - 1 ]] ]

\* The elements ConvertGraphDesc writes into the vectors its caller sized.
DmlGraphNode(n) ==
    [Type |-> "DML_GRAPH_NODE_TYPE_OPERATOR", Desc |-> [Operator |-> n.op]]
DmlInputEdge(e) == [Type |-> "DML_GRAPH_EDGE_TYPE_INPUT", Desc |-> e]
DmlOutputEdge_TaggedInput(e) == [Type |-> "DML_GRAPH_EDGE_TYPE_INPUT", Desc |-> e]
DmlOutputEdge(e) == [Type |-> "DML_GRAPH_EDGE_TYPE_OUTPUT", Desc |-> e]
DmlIntermediateEdge(e) == [Type |-> "DML_GRAPH_EDGE_TYPE_INTERMEDIATE", Desc |-> e]

\* A vector of n value-initialized elements, and a loop that writes
\* element i of the vector for every element i of src.
SizedVector(n) == [i \in 1..n |-> [Type |-> "", Desc |-> <<>>]]
WriteEach(vector, src) ==
    [i \in DOMAIN vector |-> IF i <= Len(src) THEN src[i] ELSE vector[i]]

ConvertGraphDesc(graphDesc, inputCount, outputCount, dmlGraphNodes, dmlInputEdges, dmlOutputEdges, dmlIntermediateEdges) ==
    LET graphInputCount == inputCount
        Nodes ==
            WriteEach(dmlGraphNodes,
                      [i \in DOMAIN graphDesc.nodes |-> DmlGraphNode(graphDesc.nodes[i])])
        InputEdges ==
            WriteEach(dmlInputEdges,
                      [i \in DOMAIN graphDesc.inputEdges |->
                          DmlInputEdge(graphDesc.inputEdges[i])])
        OutputEdges ==
            WriteEach(dmlOutputEdges,
                      [i \in DOMAIN graphDesc.outputEdges |->
                          DmlOutputEdge(graphDesc.outputEdges[i])])
        IntermediateEdges ==
            WriteEach(dmlIntermediateEdges,
                      [i \in DOMAIN graphDesc.intermediateEdges |->
                          DmlIntermediateEdge(graphDesc.intermediateEdges[i])])
    IN [ InputCount |-> graphInputCount,
         OutputCount |-> outputCount,
         NodeCount |-> Len(Nodes),
         Nodes |-> Nodes,
         InputEdgeCount |-> Len(InputEdges),
         InputEdges |-> InputEdges,
         OutputEdgeCount |-> Len(OutputEdges),
         OutputEdges |-> OutputEdges,
         IntermediateEdgeCount |-> Len(IntermediateEdges),
         IntermediateEdges |-> IntermediateEdges ]

\* The descriptor the device compiler is handed for graphDesc: the vectors
\* are sized from graphDesc, the counts are those of the fused node.
DmlGraphDescFor(graphDesc, fused) ==
    ConvertGraphDesc(graphDesc, Len(fused.inputs), Len(fused.outputs),
                     SizedVector(Len(graphDesc.nodes)),
                     SizedVector(Len(graphDesc.inputEdges)),
                     SizedVector(Len(graphDesc.outputEdges)),
                     SizedVector(Len(graphDesc.intermediateEdges)))

\* The original names, inputsConstant, GetDmlDevice, BuildGraphDesc and
\* ConvertGraphDesc.
BuildGraphDesc ==
    /\ pc = "describe"
    /\ \/ /\ compiled' =
                 [compiled EXCEPT
                    !.fusedNodeInputArgOriginalNames = subGraph.inputs,
                    !.fusedNodeOutputArgOriginalNames = subGraph.outputs,
                    !.inputsConstant =
                        InputsConstant(Len(nodes[fusedNode].inputs), subGraph.inputs,
                                       transferredInitializerMap[partitionIndex]),
                    !.graphDesc = GraphDescBuilder_BuildGraphDesc(nodes, subGraph),
                    !.dmlGraphDesc =
                        DmlGraphDescFor(GraphDescBuilder_BuildGraphDesc(nodes, subGraph),
                                        nodes[fusedNode])]
          /\ pc' = "compile"
          /\ UNCHANGED status
       \/ /\ Throw
          /\ UNCHANGED compiled
    /\ UNCHANGED << graphVars, oracleVars, other, partitionKernelPrefixVal, registry, kernels, modified,
                    partitions, initializerPartitionMap, requiredInitializerMap,
                    partitionIndex, inputIndex, transferredInitializerMap,
                    partitionKernelPrefix, subGraph, fusedNode, hist >>

\* ORT_THROW_IF_FAILED(device1->CompileGraph(...)) on a failure HRESULT.
CompileGraphFailed_Retried ==
    /\ pc' = "compile"
    /\ UNCHANGED status
CompileGraphFailed == Throw

\* IDMLDevice1::CompileGraph on the converted descriptor.
CompileGraph ==
    /\ pc = "compile"
    /\ hist' = [hist EXCEPT !.compileCalls = @ + 1, !.compiles = @ + 1]
    /\ \/ /\ compiled' = [compiled EXCEPT !.compiledOperator = TRUE]
          /\ pc' = "shapes"
          /\ UNCHANGED status
       \/ /\ CompileGraphFailed
          /\ UNCHANGED compiled
    /\ UNCHANGED << graphVars, oracleVars, other, partitionKernelPrefixVal, registry, kernels, modified,
                    partitions, initializerPartitionMap, requiredInitializerMap,
                    partitionIndex, inputIndex, transferredInitializerMap,
                    partitionKernelPrefix, subGraph, fusedNode >>

\* TryGetStaticOutputShapes
GetStaticOutputShapes ==
    /\ pc = "shapes"
    /\ \/ /\ compiled' = [compiled EXCEPT !.outputShapes = TRUE]
          /\ pc' = "register"
          /\ UNCHANGED status
       \/ /\ Throw
          /\ UNCHANGED compiled
    /\ UNCHANGED << graphVars, oracleVars, other, partitionKernelPrefixVal, registry, kernels, modified,
                    partitions, initializerPartitionMap, requiredInitializerMap,
                    partitionIndex, inputIndex, transferredInitializerMap,
                    partitionKernelPrefix, subGraph, fusedNode, hist >>

\* The kernel create function with its captures, under the builder's signature.
FusedKernel_NameWithoutIndex ==
    [ name |-> DML_GRAPH_FUSION_NODE_NAME_PREFIX \o partitionKernelPrefix,
      domain |-> subGraph.domain,
      since_version |-> subGraph.since_version,
      provider |-> kDmlExecutionProvider,
      compiledExecutionPlanOperator |-> compiled.compiledOperator,
      outputShapes |-> compiled.outputShapes,
      inputsConstant |-> compiled.inputsConstant,
      transferredInitializerMap |-> transferredInitializerMap[partitionIndex],
      fusedNodeInputArgOriginalNames |-> compiled.fusedNodeInputArgOriginalNames ]
FusedKernel ==
    [ name |-> subGraph.name,
      domain |-> subGraph.domain,
      since_version |-> subGraph.since_version,
      provider |-> kDmlExecutionProvider,
      compiledExecutionPlanOperator |-> compiled.compiledOperator,
      outputShapes |-> compiled.outputShapes,
      inputsConstant |-> compiled.inputsConstant,
      transferredInitializerMap |-> transferredInitializerMap[partitionIndex],
      fusedNodeInputArgOriginalNames |-> compiled.fusedNodeInputArgOriginalNames ]

\* KernelRegistry::Register refuses a second kernel of the same signature.
RegistryConflict(reg, k) ==
    \E e \in reg : /\ e.name = k.name
                   /\ e.domain = k.domain
                   /\ e.since_version = k.since_version
                   /\ e.provider = k.provider

RegisterKernel ==
    /\ pc = "register"
    /\ \/ /\ ~RegistryConflict(registry, FusedKernel)
          /\ registry' = registry \cup {FusedKernel}
          /\ pc' = "finalize"
          /\ UNCHANGED status
       \/ /\ Throw
          /\ UNCHANGED registry
    /\ UNCHANGED << graphVars, oracleVars, other, partitionKernelPrefixVal, kernels, modified,
                    partitions, initializerPartitionMap, requiredInitializerMap,
                    partitionIndex, inputIndex, transferredInitializerMap,
                    partitionKernelPrefix, fuseVars, hist >>

\* graph.FinalizeFuseSubGraph(subGraph, fusedNode), then the next partition.
FinalizeFuse_Skipped ==
    /\ pc = "finalize"
    /\ partitionIndex' = partitionIndex + 1
    /\ pc' = "loop"
    /\ UNCHANGED << graphVars, oracleVars, other, partitionKernelPrefixVal, registry, kernels,
                    modified, status, partitions, initializerPartitionMap,
                    requiredInitializerMap, inputIndex, transferredInitializerMap,
                    partitionKernelPrefix, fuseVars, hist >>
FinalizeFuse ==
    /\ pc = "finalize"
    /\ nodes' = FinalizeFuseSubGraph(nodes, subGraph)
    /\ partitionIndex' = partitionIndex + 1
    /\ pc' = "loop"
    /\ UNCHANGED << nodeCount, initializers, oracleVars, other, partitionKernelPrefixVal, registry, kernels,
                    modified, status, partitions, initializerPartitionMap,
                    requiredInitializerMap, inputIndex, transferredInitializerMap,
                    partitionKernelPrefix, fuseVars, hist >>

(***************************************************************************)
(* The kernel create function registered for a fused node, called by the   *)
(* session for a fused node of its graph once the transformers have run.   *)
(***************************************************************************)
\* The input names the create function hands to the kernel: the copy it
\* captured, not the names the node has in the graph now.
KernelInputArgNames_FromNode(e) ==
    nodes[CHOOSE i \in DOMAIN nodes : nodes[i].fused /\ nodes[i].name = e.name].inputs
KernelInputArgNames(e) == e.fusedNodeInputArgOriginalNames

\* CreateFusedGraphKernel(info, compiledExecutionPlanOperator, ...): the
\* kernel is built from the captures of the create function.
CreateFusedGraphKernel(e) ==
    [ name |-> e.name,
      compiledExecutionPlanOperator |-> e.compiledExecutionPlanOperator,
      outputShapes |-> e.outputShapes,
      inputsConstant |-> e.inputsConstant,
      transferredInitializerMap |-> e.transferredInitializerMap,
      fusedNodeInputArgOriginalNames |-> KernelInputArgNames(e) ]

\* fused_kernel_func(func_mgr, info, out)
FusedKernelFunc ==
    /\ pc = "done"
    /\ Len(kernels) < MaxKernels
    /\ \E e \in registry :
        /\ \E i \in DOMAIN nodes :
              /\ nodes[i].fused
              /\ nodes[i].name = e.name
              /\ nodes[i].domain = e.domain
              /\ nodes[i].since_version = e.since_version
              /\ nodes[i].provider = e.provider
        /\ kernels' = Append(kernels, CreateFusedGraphKernel(e))
    /\ UNCHANGED << graphVars, oracleVars, other, partitionKernelPrefixVal, registry, modified,
                    pc, status, partitions, initializerPartitionMap,
                    requiredInitializerMap, partitionIndex, inputIndex,
                    transferredInitializerMap, partitionKernelPrefix, fuseVars, hist >>

Next ==
    \/ ApplyImplBegin
    \/ NextPartition
    \/ ApplyImplReturn
    \/ PopulateTransferredInitializer
    \/ GetPartitionKernelPrefix
    \/ IncreasePartitionKernelPrefixVal
    \/ BeginFuse
    \/ BuildGraphDesc
    \/ CompileGraph
    \/ GetStaticOutputShapes
    \/ RegisterKernel
    \/ FinalizeFuse
    \/ FusedKernelFunc

Spec == Init /\ [][Next]_vars

(***************************************************************************)
(* The same provider (counter and kernel registry) is given another graph  *)
(* after a pass that ended, in success or not: a new session's model.      *)
(***************************************************************************)
LoadGraph ==
    /\ pc \in {"done", "returned", "threw"}
    /\ hist.pass < MaxPasses
    /\ nodes' \in GraphsOf(ReloadNodes)
    /\ nodeCount' = ReloadNodes
    /\ initializers' = [w \in InitializerNames |-> TensorProto(w)]
    /\ capability' \in [1..ReloadNodes -> Capabilities]
    /\ required' \in SUBSET InitializerNames
    /\ modified' = FALSE
    /\ kernels' = <<>>
    /\ pc' = "idle"
    /\ status' = "none"
    /\ partitions' = <<>>
    /\ initializerPartitionMap' = EmptyMap
    /\ requiredInitializerMap' = {}
    /\ partitionIndex' = 0
    /\ inputIndex' = 1
    /\ transferredInitializerMap' = EmptyMap
    /\ partitionKernelPrefix' = ""
    /\ subGraph' = NoSubGraph
    /\ fusedNode' = 0
    /\ compiled' = NoCompiled
    /\ hist' = [hist EXCEPT !.loads = @ + 1, !.built = <<>>,
                            !.passStart = NoSnapshot, !.fuseStart = NoSnapshot]
    /\ UNCHANGED << partitionKernelPrefixVal, registry, other >>

InitReload == InitWith(MaxNodes - 1)

NextReload == Next \/ LoadGraph

SpecReload == InitReload /\ [][NextReload]_vars

(***************************************************************************)
(* A transformer that runs after the pass (memcpy, L1/L2/L3) renames an    *)
(* input or output argument of a fused node; the graph's edges follow the  *)
(* name.  Initializers still in the graph keep their names.                *)
(***************************************************************************)
RenameIn(names, nm) ==
    [k \in DOMAIN names |-> IF names[k] = nm THEN RenamedName(nm) ELSE names[k]]

RenamedArgs ==
    { nm \in Range(NameOrder) :
        \E i \in DOMAIN nodes :
            RenamedName(nm) \in Range(nodes[i].inputs) \cup Range(nodes[i].outputs) }

RenameNodeArg ==
    /\ pc = "done"
    /\ Cardinality(RenamedArgs) < MaxRenames
    /\ \E i \in DOMAIN nodes :
        /\ nodes[i].fused
        /\ \E nm \in (Range(nodes[i].inputs) \cup Range(nodes[i].outputs)) \ DOMAIN initializers :
              /\ RenamedName(nm) \in Range(NameOrder)
              /\ nodes' = [n \in DOMAIN nodes |->
                              [nodes[n] EXCEPT !.inputs = RenameIn(@, nm),
                                               !.outputs = RenameIn(@, nm)]]
    /\ UNCHANGED << nodeCount, initializers, oracleVars, other, partitionKernelPrefixVal, registry,
                    kernels, modified, pc, status, partitions, initializerPartitionMap,
                    requiredInitializerMap, partitionIndex, inputIndex,
                    transferredInitializerMap, partitionKernelPrefix, fuseVars, hist >>

NextRename == Next \/ RenameNodeArg

SpecRename == Init /\ [][NextRename]_vars

(***************************************************************************)
(* A second invocation of ApplyImpl, for another graph, on the same        *)
(* provider: its graph has OtherPartitions DML graph partitions and no     *)
(* initializer.  Of its steps the model keeps those that touch the         *)
(* provider's counter and the name each fused node is given; the two       *)
(* invocations take steps in any order.                                    *)
(***************************************************************************)
\* std::to_string(m_providerImpl->GetPartitionKernelPrefixVal()) + "_"
OtherGetPartitionKernelPrefix ==
    /\ other.pc = "read"
    /\ other.partitionIndex < OtherPartitions
    /\ other' = [other EXCEPT !.partitionKernelPrefix = to_string(partitionKernelPrefixVal) \o "_",
                              !.prefixVal = partitionKernelPrefixVal,
                              !.pc = "increase"]
    /\ UNCHANGED << graphVars, oracleVars, partitionKernelPrefixVal, registry, kernels,
                    modified, pc, status, partitions, initializerPartitionMap,
                    requiredInitializerMap, partitionIndex, inputIndex,
                    transferredInitializerMap, partitionKernelPrefix, fuseVars, hist >>

\* m_providerImpl->IncreasePartitionKernelPrefixVal()
OtherIncreasePartitionKernelPrefixVal ==
    /\ other.pc = "increase"
    /\ partitionKernelPrefixVal' = partitionKernelPrefixVal + 1
    /\ other' = [other EXCEPT !.pc = "fuse"]
    /\ UNCHANGED << graphVars, oracleVars, registry, kernels,
                    modified, pc, status, partitions, initializerPartitionMap,
                    requiredInitializerMap, partitionIndex, inputIndex,
                    transferredInitializerMap, partitionKernelPrefix, fuseVars, hist >>

\* FusePartitionAndRegisterKernel: the name of the fused node.
OtherFuse ==
    /\ other.pc = "fuse"
    /\ other' = [other EXCEPT
                    !.fused = Append(@, [ prefixVal |-> other.prefixVal,
                                          name |-> FusedNodeName(other.partitionKernelPrefix,
                                                                 other.partitionIndex) ]),
                    !.partitionIndex = @ + 1,
                    !.pc = "read"]
    /\ UNCHANGED << graphVars, oracleVars, partitionKernelPrefixVal, registry, kernels,
                    modified, pc, status, partitions, initializerPartitionMap,
                    requiredInitializerMap, partitionIndex, inputIndex,
                    transferredInitializerMap, partitionKernelPrefix, fuseVars, hist >>

InitInterleaved == InitWith(MaxNodes - 1)

NextInterleaved ==
    \/ Next
    \/ OtherGetPartitionKernelPrefix
    \/ OtherIncreasePartitionKernelPrefixVal
    \/ OtherFuse

SpecInterleaved == InitInterleaved /\ [][NextInterleaved]_vars

(***************************************************************************)
(* ApplyImpl called with either value of the caller's flag.                *)
(***************************************************************************)
InitCaller == \E m \in BOOLEAN : InitWithModified(MaxNodes - 1, m)

SpecCaller == InitCaller /\ [][Next]_vars

(***************************************************************************)
(* Properties.                                                             *)
(***************************************************************************)
\* Root partitions of the built list that list tensor w as an input
\* (0-based partition indices, as the code numbers them).
ReferencingPartitions(w) ==
    { p \in 0..(Len(hist.built) - 1) :
        /\ IsRootPartition(hist.built, p + 1)
        /\ w \in Range(hist.built[p + 1].inputs) }

\* The DML graph partitions whose initializers have all been resolved in
\* the current pass.
ResolvedPartitions ==
    { p \in DOMAIN transferredInitializerMap :
        /\ hist.built[p + 1].isDmlGraphPartition
        /\ \/ p < partitionIndex
           \/ pc \in {"increase", "fuse", "describe", "compile", "shapes",
                      "register", "finalize", "threw"} }

\* The fused nodes the current pass has created on the current graph.
FusedThisPass ==
    { k \in DOMAIN hist.fused :
        hist.fused[k].load = hist.loads /\ hist.fused[k].pass = hist.pass }

\* The successful extractions of the current pass.
ExtractedThisPass ==
    { k \in DOMAIN hist.extracted :
        hist.extracted[k].load = hist.loads /\ hist.extracted[k].pass = hist.pass }

\* C1: when the build-and-register step throws after BeginFuseSubGraph
\* inserted the fused node, the graph (nodes and initializers) is what it
\* was when the fuse of that partition began.
C1_RollbackOnFailure ==
    pc = "threw" =>
        /\ nodes = hist.fuseStart.nodes
        /\ initializers = hist.fuseStart.initializers

\* C2 as stated: after a pass that returned OK, every initializer listed by
\* exactly one root partition has left the graph and is in that partition's
\* transferred-initializer map.
C2_ExclusiveTransferredAnyRegion ==
    (pc = "done" /\ status = "OK") =>
        \A w \in DOMAIN hist.passStart.initializers :
            \A p \in ReferencingPartitions(w) :
                Cardinality(ReferencingPartitions(w)) = 1 =>
                    /\ w \notin DOMAIN initializers
                    /\ p \in DOMAIN transferredInitializerMap
                    /\ w \in DOMAIN transferredInitializerMap[p]

\* C2 amended: after a pass that returned OK, every initializer listed by
\* exactly one root partition, that partition being a DML graph partition,
\* has left the graph and is, with its value, in that partition's map.
C2_ExclusiveTransferred ==
    (pc = "done" /\ status = "OK") =>
        \A w \in DOMAIN hist.passStart.initializers :
            \A p \in ReferencingPartitions(w) :
                (/\ Cardinality(ReferencingPartitions(w)) = 1
                 /\ hist.built[p + 1].isDmlGraphPartition) =>
                    /\ w \notin DOMAIN initializers
                    /\ p \in DOMAIN transferredInitializerMap
                    /\ w \in DOMAIN transferredInitializerMap[p]
                    /\ transferredInitializerMap[p][w] = hist.passStart.initializers[w]

C2_Witness ==
    /\ pc = "done" /\ status = "OK"
    /\ \E w \in DOMAIN hist.passStart.initializers :
        \E p \in ReferencingPartitions(w) :
            /\ Cardinality(ReferencingPartitions(w)) = 1
            /\ hist.built[p + 1].isDmlGraphPartition
            /\ Len(hist.built[p + 1].nodeIndices) > 1
            /\ w \notin DOMAIN initializers
            /\ transferredInitializerMap[p][w] = hist.passStart.initializers[w]

\* C3: an initializer listed by two or more root partitions is in the graph,
\* with its value, in every state of the pass and after it.
C3_SharedStaysInGraph ==
    hist.pass >= 1 =>
        \A w \in DOMAIN hist.passStart.initializers :
            Cardinality(ReferencingPartitions(w)) >= 2 =>
                /\ w \in DOMAIN initializers
                /\ initializers[w] = hist.passStart.initializers[w]

C3_Witness ==
    /\ pc = "done" /\ status = "OK"
    /\ \E w \in DOMAIN hist.passStart.initializers :
        /\ Cardinality(ReferencingPartitions(w)) >= 2
        /\ \E p, q \in ReferencingPartitions(w) \cap ResolvedPartitions : p # q
        /\ w \in DOMAIN initializers

\* C4: for an initializer listed by more than one root partition and a DML
\* graph partition that lists it: when the initializer is required, the
\* partition's map holds a copy and the graph still holds the original;
\* when it is not, the map has no entry for it.
C4_SharedCopiedWhenRequired ==
    \A p \in ResolvedPartitions :
        \A w \in Range(hist.built[p + 1].inputs) \cap DOMAIN hist.passStart.initializers :
            Cardinality(ReferencingPartitions(w)) >= 2 =>
                IF w \in requiredInitializerMap
                THEN /\ w \in DOMAIN transferredInitializerMap[p]
                     /\ transferredInitializerMap[p][w] = hist.passStart.initializers[w]
                     /\ w \in DOMAIN initializers
                     /\ initializers[w] = hist.passStart.initializers[w]
                ELSE w \notin DOMAIN transferredInitializerMap[p]

C4_Witness ==
    /\ pc = "done" /\ status = "OK"
    /\ \E p, q \in ResolvedPartitions :
        \E w \in Range(hist.built[p + 1].inputs) \cap Range(hist.built[q + 1].inputs) :
            /\ p # q
            /\ w \in DOMAIN hist.passStart.initializers
            /\ w \in requiredInitializerMap
            /\ transferredInitializerMap[p][w] = hist.passStart.initializers[w]
            /\ transferredInitializerMap[q][w] = hist.passStart.initializers[w]
            /\ w \in DOMAIN initializers

\* C5: in one pass no initializer is extracted twice; an extracted
\* initializer is gone from the graph and held by the map of one partition
\* only; the initializers the graph lost are the extracted ones, one
\* extraction each.
C5_ExtractedOnce ==
    /\ \A i, j \in ExtractedThisPass :
           hist.extracted[i].name = hist.extracted[j].name => i = j
    /\ \A i \in ExtractedThisPass :
           /\ hist.extracted[i].name \notin DOMAIN initializers
           /\ { p \in DOMAIN transferredInitializerMap :
                  hist.extracted[i].name \in DOMAIN transferredInitializerMap[p] }
                = { hist.extracted[i].partitionIndex }
    /\ hist.pass >= 1 =>
           /\ DOMAIN hist.passStart.initializers \ DOMAIN initializers
                = { hist.extracted[i].name : i \in ExtractedThisPass }
           /\ Cardinality(DOMAIN hist.passStart.initializers \ DOMAIN initializers)
                = Cardinality(ExtractedThisPass)

C5_Witness ==
    /\ pc = "done" /\ status = "OK"
    /\ Cardinality(ExtractedThisPass) = 2
    /\ \E i, j \in ExtractedThisPass :
           hist.extracted[i].partitionIndex # hist.extracted[j].partitionIndex
    /\ DOMAIN initializers = {}

C7_NamesDistinct ==
    \A i, j \in DOMAIN hist.fused :
        i # j => hist.fused[i].name # hist.fused[j].name

C7_Witness ==
    /\ \E i, j \in DOMAIN hist.fused :
        /\ i # j
        /\ hist.fused[i].load = hist.fused[j].load
        /\ hist.fused[i].pass = hist.fused[j].pass
    /\ \E i, j \in DOMAIN hist.fused :
        /\ hist.fused[i].load # hist.fused[j].load
        /\ hist.fused[i].partitionIndex = hist.fused[j].partitionIndex
    /\ pc = "done" /\ status = "OK"

\* C8: every fused node is named prefix, counter value read for it, "_",
\* index of its partition in the partition list; its domain is the fusion
\* domain and its version 1.
C8_FusedNodeSignature ==
    /\ \A k \in DOMAIN hist.fused :
        hist.fused[k].name =
            "DmlFusedNode_" \o to_string(hist.fused[k].prefixVal) \o "_"
                \o to_string(hist.fused[k].partitionIndex)
    /\ \A k \in FusedThisPass :
        LET e == hist.fused[k]
        IN /\ e.partitionIndex + 1 \in RootPartitions(hist.built)
           /\ hist.built[e.partitionIndex + 1].isDmlGraphPartition
           /\ hist.built[e.partitionIndex + 1].nodeIndices = e.nodes
           /\ e.node \in DOMAIN nodes
           /\ nodes[e.node].name = e.name
    /\ \A i \in DOMAIN nodes :
        nodes[i].fused =>
            /\ nodes[i].domain = "DmlFusedNodeDomain"
            /\ nodes[i].since_version = 1
            /\ \E k \in DOMAIN hist.fused :
                /\ hist.fused[k].load = hist.loads
                /\ hist.fused[k].node = i
                /\ hist.fused[k].name = nodes[i].name

C8_Witness ==
    /\ pc = "done" /\ status = "OK"
    /\ \E i \in DOMAIN nodes :
        /\ nodes[i].fused
        /\ nodes[i].name = "DmlFusedNode_1_2"
        /\ nodes[i].domain = "DmlFusedNodeDomain"
        /\ nodes[i].since_version = 1
    /\ \E k \in DOMAIN hist.fused :
        hist.fused[k].prefixVal = 1 /\ hist.fused[k].partitionIndex = 2

\* Tensors the nodes of S consume from outside S, and tensors they produce
\* for a node outside S or for the graph, in graph ns.
ExternalInputs(ns, S) ==
    { nm \in UNION { Range(ns[m].inputs) : m \in S } :
        ~\E m \in S : nm \in Range(ns[m].outputs) }

ExternalOutputs(ns, S) ==
    { nm \in UNION { Range(ns[m].outputs) : m \in S } :
        \/ \E c \in DOMAIN ns \ S : nm \in Range(ns[c].inputs)
        \/ ~\E c \in DOMAIN ns : nm \in Range(ns[c].inputs) }

\* Nodes a and b form a chain a -> b: b consumes a's outputs and nothing
\* else, and no other node consumes them.
IsChain(ns, a, b) ==
    /\ a # b
    /\ ns[b].inputs = ns[a].outputs
    /\ \A c \in DOMAIN ns \ {b} : Range(ns[c].inputs) \cap Range(ns[a].outputs) = {}

\* C9: a fused node's input and output lists are its partition's lists, in
\* the partition's order, and name exactly the tensors the partition's nodes
\* exchange with the rest of the graph; for a chain a -> b fused as one
\* partition they are a's inputs and b's outputs.
C9_FusedNodeInputsOutputs ==
    \A k \in FusedThisPass :
        LET e == hist.fused[k]
            region == hist.built[e.partitionIndex + 1]
            S == Range(region.nodeIndices)
            ns == hist.passStart.nodes
        IN /\ nodes[e.node].inputs = region.inputs
           /\ nodes[e.node].outputs = region.outputs
           /\ Range(nodes[e.node].inputs) = ExternalInputs(ns, S)
           /\ Range(nodes[e.node].outputs) = ExternalOutputs(ns, S)
           /\ Len(nodes[e.node].inputs) = Cardinality(ExternalInputs(ns, S))
           /\ Len(nodes[e.node].outputs) = Cardinality(ExternalOutputs(ns, S))
           /\ \A a, b \in S :
                (S = {a, b} /\ IsChain(ns, a, b)) =>
                    /\ Range(nodes[e.node].inputs) = Range(ns[a].inputs)
                    /\ nodes[e.node].outputs = ns[b].outputs

C9_Witness ==
    /\ pc = "done" /\ status = "OK"
    /\ \E k \in FusedThisPass :
        LET e == hist.fused[k]
            S == Range(hist.built[e.partitionIndex + 1].nodeIndices)
            ns == hist.passStart.nodes
        IN \E a, b \in S :
            /\ S = {a, b}
            /\ IsChain(ns, a, b)
            /\ Len(ns[a].inputs) = 2
            /\ Range(nodes[e.node].inputs) = Range(ns[a].inputs)
            /\ nodes[e.node].outputs = ns[b].outputs
            /\ DOMAIN nodes \cap S = {}

\* C10: the root partitions BuildPartitions returns partition the node set
\* of the graph: every node is in exactly one of them, and they hold
\* nothing but nodes of the graph.
C10_RootPartitionsPartitionNodes ==
    hist.built # <<>> =>
        /\ \A n \in DOMAIN hist.passStart.nodes :
            Cardinality({ p \in RootPartitions(hist.built) :
                            n \in Range(hist.built[p].nodeIndices) }) = 1
        /\ \A p \in RootPartitions(hist.built) :
            /\ Range(hist.built[p].nodeIndices) \subseteq DOMAIN hist.passStart.nodes
            /\ Cardinality(Range(hist.built[p].nodeIndices)) = Len(hist.built[p].nodeIndices)

C10_Witness ==
    /\ hist.pass = 1
    /\ pc = "loop"
    /\ partitionIndex = 0
    /\ \E p \in DOMAIN hist.built : hist.built[p].mergedPartition # 0
    /\ Cardinality(RootPartitions(hist.built)) = 1
    /\ \A n \in DOMAIN nodes :
        \E p \in RootPartitions(hist.built) : n \in Range(hist.built[p].nodeIndices)

(***************************************************************************)
(* Dependencies between root partitions and between nodes.                 *)
(***************************************************************************)
\* The root partition of ps that holds node n.
OwnerOf(ps, n) == CHOOSE r \in RootPartitions(ps) : n \in Range(ps[r].nodeIndices)

\* Node b consumes a tensor node a produces (a node may feed itself).
Feeds(ns, a, b) ==
    \E k \in DOMAIN ns[b].inputs : ns[b].inputs[k] \in Range(ns[a].outputs)

\* Root partition r consumes a tensor produced in another root partition q.
RegionDependsOn(ns, ps, r, q) ==
    /\ r # q
    /\ \E a \in Range(ps[q].nodeIndices), b \in Range(ps[r].nodeIndices) : Feeds(ns, a, b)

\* A topological order over the root partitions, as far as one exists.
RECURSIVE RegionOrder(_, _, _)
RegionOrder(ns, ps, done) ==
    LET ready == { r \in RootPartitions(ps) \ Range(done) :
                     \A q \in RootPartitions(ps) :
                         RegionDependsOn(ns, ps, r, q) => q \in Range(done) }
    IN IF ready = {} THEN done
       ELSE RegionOrder(ns, ps, Append(done, SetMin(ready)))

\* A topological order over the nodes, as far as one exists.
RECURSIVE NodeOrder(_, _)
NodeOrder(ns, done) ==
    LET ready == { n \in DOMAIN ns \ Range(done) :
                     \A m \in DOMAIN ns : Feeds(ns, m, n) => m \in Range(done) }
    IN IF ready = {} THEN done
       ELSE NodeOrder(ns, Append(done, SetMin(ready)))

IsAcyclic(ns) == Len(NodeOrder(ns, <<>>)) = Cardinality(DOMAIN ns)

\* C11: the root partitions BuildPartitions returns have a topological
\* order (no merge closed a cycle between partitions), and the graph has a
\* topological order over its nodes in every state of the pass and after
\* it, the fused nodes in place of their partitions included.
C11_RegionsAcyclic ==
    hist.pass >= 1 =>
        /\ Len(RegionOrder(hist.passStart.nodes, hist.built, <<>>))
             = Cardinality(RootPartitions(hist.built))
        /\ IsAcyclic(nodes)

\* A pass that fused two DML graph partitions joined by an edge, which a
\* merge would have closed into a cycle through a third partition.
C11_Witness ==
    /\ pc = "done" /\ status = "OK" /\ hist.pass = 1
    /\ \E r, q \in RootPartitions(hist.built) :
        /\ r # q
        /\ hist.built[r].isDmlGraphPartition
        /\ hist.built[q].isDmlGraphPartition
        /\ RegionDependsOn(hist.passStart.nodes, hist.built, r, q)
        /\ \E z \in RootPartitions(hist.built) \ {r, q} :
              /\ RegionDependsOn(hist.passStart.nodes, hist.built, z, q)
              /\ RegionDependsOn(hist.passStart.nodes, hist.built, r, z)
    /\ Cardinality({ i \in DOMAIN nodes : nodes[i].fused }) = 2
    /\ IsAcyclic(nodes)

\* The nodes of the graph the pass was entered with that the capability
\* oracle reports as unsupported.
UnsupportedNodes ==
    { n \in DOMAIN hist.passStart.nodes \cap DOMAIN capability :
        ~hist.passStart.nodes[n].fused /\ capability[n] = "none" }

\* The node sets of the DML graph root partitions BuildPartitions returned.
DmlGraphRegions ==
    { Range(hist.built[r].nodeIndices) :
        r \in { q \in RootPartitions(hist.built) : hist.built[q].isDmlGraphPartition } }

\* a -> b -> c and no other edge among the three.
IsChainOfThree(ns, a, b, c) ==
    /\ Producers(ns, a) = {}
    /\ Producers(ns, b) = {a}
    /\ Producers(ns, c) = {b}

\* C12: an unsupported node is alone in a root partition that is not a DML
\* partition and that no partition was merged into; the loop skips that
\* partition (no map is made for it), no fused node takes the node's place,
\* and the node stays in the graph as it was.  For the chain a -> b -> c
\* with only b unsupported the DML graph partitions are {a} and {c}, and
\* after the pass a and c are replaced by two fused nodes and b is not.
C12_UnsupportedNeverFused ==
    hist.pass >= 1 =>
        /\ \A n \in UnsupportedNodes :
            LET r == OwnerOf(hist.built, n)
            IN /\ hist.built[r].nodeIndices = <<n>>
               /\ ~hist.built[r].isDmlPartition
               /\ ~hist.built[r].isDmlGraphPartition
               /\ \A p \in DOMAIN hist.built : hist.built[p].mergedPartition # r
               /\ (r - 1) \notin DOMAIN transferredInitializerMap
               /\ \A k \in FusedThisPass : n \notin Range(hist.fused[k].nodes)
               /\ n \in DOMAIN nodes
               /\ nodes[n] = hist.passStart.nodes[n]
        /\ \A a, b, c \in DOMAIN hist.passStart.nodes \cap DOMAIN capability :
            (/\ IsChainOfThree(hist.passStart.nodes, a, b, c)
             /\ UnsupportedNodes = {b}
             /\ DOMAIN hist.passStart.nodes = {a, b, c}
             /\ \A n \in {a, b, c} : ~hist.passStart.nodes[n].fused) =>
                /\ DmlGraphRegions = {{a}, {c}}
                /\ (pc = "done" /\ status = "OK") =>
                       /\ DOMAIN nodes \cap {a, b, c} = {b}
                       /\ Cardinality({ i \in DOMAIN nodes : nodes[i].fused }) = 2

C12_Witness ==
    /\ pc = "done" /\ status = "OK" /\ hist.pass = 1
    /\ IsChainOfThree(hist.passStart.nodes, 1, 2, 3)
    /\ UnsupportedNodes = {2}
    /\ DmlGraphRegions = {{1}, {3}}
    /\ DOMAIN nodes \cap {1, 2, 3} = {2}
    /\ nodes[2] = hist.passStart.nodes[2]
    /\ Cardinality({ i \in DOMAIN nodes : nodes[i].fused }) = 2

\* The root partitions that depend, directly or not, on one of S.
RECURSIVE RegionsDownstream(_, _, _)
RegionsDownstream(ns, ps, S) ==
    LET T == S \cup { r \in RootPartitions(ps) : \E q \in S : RegionDependsOn(ns, ps, r, q) }
    IN IF T = S THEN S ELSE RegionsDownstream(ns, ps, T)

\* One partition made of r and q would depend on a partition that depends
\* on it.
MergeWouldCycle(ns, ps, r, q) ==
    \E z \in RegionsDownstream(ns, ps, {r, q}) \ {r, q} :
        RegionsDownstream(ns, ps, {z}) \cap {r, q} # {}

\* The nodes of the graph the pass was entered with that the capability
\* oracle reports as nodes of a DML graph.
SupportedNodes ==
    { n \in DOMAIN hist.passStart.nodes \cap DOMAIN capability :
        ~hist.passStart.nodes[n].fused /\ capability[n] = "graph" }

\* C13: two supported nodes a -> b are in the same root partition unless one
\* partition holding both would close a cycle between partitions; then they
\* are in two DML graph root partitions and the pass goes on (no error).
\* For a -> b, both supported, with no other connection, {a, b} is one
\* region.
C13_AdjacentSupportedMerged ==
    hist.pass >= 1 =>
        /\ \A a, b \in SupportedNodes :
            a \in Producers(hist.passStart.nodes, b) =>
                LET r == OwnerOf(hist.built, a)
                    q == OwnerOf(hist.built, b)
                IN \/ r = q
                   \/ /\ MergeWouldCycle(hist.passStart.nodes, hist.built, r, q)
                      /\ hist.built[r].isDmlGraphPartition
                      /\ hist.built[q].isDmlGraphPartition
                      /\ (pc = "loop" /\ partitionIndex = 0) => status = "running"
                      /\ (pc = "done" /\ hist.pass = 1) =>
                             /\ status = "OK"
                             /\ DOMAIN nodes \cap {a, b} = {}
        /\ \A a, b \in SupportedNodes :
            (/\ IsChain(hist.passStart.nodes, a, b)
             /\ Producers(hist.passStart.nodes, a) = {}
             /\ \A c \in DOMAIN hist.passStart.nodes : b \notin Producers(hist.passStart.nodes, c)) =>
                {a, b} \in DmlGraphRegions

C13_Witness ==
    /\ hist.pass = 1 /\ pc = "loop" /\ partitionIndex = 0
    /\ SupportedNodes = {1, 2, 3}
    /\ IsChain(hist.passStart.nodes, 1, 2)
    /\ Producers(hist.passStart.nodes, 1) = {}
    /\ Producers(hist.passStart.nodes, 3) = {}
    /\ DmlGraphRegions = {{1, 2}, {3}}

\* A merge that was refused: 1 -> 3 directly and through the unsupported 2.
C13_WitnessRefused ==
    /\ hist.pass = 1 /\ pc = "done" /\ status = "OK"
    /\ SupportedNodes = {1, 3}
    /\ 1 \in Producers(hist.passStart.nodes, 3)
    /\ OwnerOf(hist.built, 1) # OwnerOf(hist.built, 3)
    /\ MergeWouldCycle(hist.passStart.nodes, hist.built, OwnerOf(hist.built, 1), OwnerOf(hist.built, 3))

\* The fused nodes whose build reached the call of CompileGraph.
ReachedCompile ==
    { k \in DOMAIN hist.fused :
        \/ k < Len(hist.fused)
        \/ pc \notin {"describe", "compile", "threw"}
        \/ pc = "threw" /\ GraphDescBuilt }

\* CompileGraph returned a failure for the partition being fused.
CompileGraphThrew ==
    pc = "threw" /\ GraphDescBuilt /\ ~compiled.compiledOperator

C14_Witness ==
    /\ pc = "done" /\ status = "OK"
    /\ hist.compiles = 2
    /\ Len(hist.fused) = 2
    /\ Len(kernels) = 2
    /\ kernels[1].name # kernels[2].name

BuildGraphDescThrew == pc = "threw" /\ ~GraphDescBuilt

\* C15: when building the descriptor of a partition fails, only that
\* partition's fusion is abandoned: the graph is what it was before the
\* fuse of the partition began (its nodes unfused, no fused node for it),
\* no exception ends the pass, and the pass can go on to the next partition.
C15_DescriptorFailureIsLocal ==
    BuildGraphDescThrew =>
        /\ status # "exception"
        /\ nodes = hist.fuseStart.nodes
        /\ ENABLED Next

\* The fused nodes of the graph whose partition's nodes have left the graph.
FinalizedFusedNodes ==
    { i \in DOMAIN nodes :
        /\ nodes[i].fused
        /\ \E k \in DOMAIN hist.fused :
              /\ hist.fused[k].load = hist.loads
              /\ hist.fused[k].node = i
              /\ Range(hist.fused[k].nodes) \cap DOMAIN nodes = {} }

\* The registered create functions whose signature is that of node i.
MatchingKernels(i) ==
    { e \in registry :
        /\ e.name = nodes[i].name
        /\ e.domain = nodes[i].domain
        /\ e.since_version = nodes[i].since_version
        /\ e.provider = kDmlExecutionProvider }

\* C16: every finalized fused node has one kernel create function
\* registered under its name, domain and version for the DML provider;
\* FinalizeFuseSubGraph is reached only with that registration made, and a
\* fused node whose build threw is not finalized.
C16_FinalizedHasKernel ==
    /\ \A i \in FinalizedFusedNodes :
           /\ Cardinality(MatchingKernels(i)) = 1
           /\ nodes[i].provider = kDmlExecutionProvider
    /\ pc = "finalize" =>
           /\ fusedNode \notin FinalizedFusedNodes
           /\ Cardinality(MatchingKernels(fusedNode)) = 1
    /\ pc \in {"describe", "compile", "shapes", "register", "threw"} =>
           /\ fusedNode \notin FinalizedFusedNodes
           /\ MatchingKernels(fusedNode) = {}

C16_Witness ==
    /\ pc = "finalize"
    /\ Cardinality(FinalizedFusedNodes) = 2
    /\ Cardinality(registry) = 3
    /\ Cardinality(MatchingKernels(fusedNode)) = 1

\* Between BeginFuseSubGraph and the return of FinalizeFuseSubGraph.
InFuse == pc \in {"describe", "compile", "shapes", "register", "finalize", "threw"}

\* The fused nodes of this pass whose FinalizeFuseSubGraph has returned.
FinalizedThisPass ==
    { k \in FusedThisPass : hist.fused[k].partitionIndex < partitionIndex }

\* The nodes of ns that produce tensor t.
ProducersOf(ns, t) == { m \in DOMAIN ns : t \in Range(ns[m].outputs) }

\* C17: from BeginFuseSubGraph until FinalizeFuseSubGraph the fused node and
\* all nodes of its partition, unchanged, are in the graph together; a node
\* of the graph the pass started on is gone only when its partition's fuse
\* was finalized; after the finalize none of the partition's nodes is left,
\* the fused node consumes every tensor the partition consumed from outside
\* and is the one producer of every tensor the partition produced that a
\* node of the graph consumes.
C17_TwoPhaseFuse ==
    /\ InFuse =>
           /\ fusedNode \in DOMAIN nodes
           /\ nodes[fusedNode].fused
           /\ subGraph.nodes # <<>>
           /\ \A n \in Range(subGraph.nodes) :
                  n \in DOMAIN nodes /\ nodes[n] = hist.passStart.nodes[n]
    /\ hist.pass >= 1 =>
           \A n \in DOMAIN hist.passStart.nodes \ DOMAIN nodes :
               \E k \in FinalizedThisPass : n \in Range(hist.fused[k].nodes)
    /\ \A k \in FinalizedThisPass :
           LET e == hist.fused[k]
               S == Range(e.nodes)
               ns == hist.passStart.nodes
           IN /\ S \cap DOMAIN nodes = {}
              /\ e.node \in DOMAIN nodes
              /\ ExternalInputs(ns, S) \subseteq Range(nodes[e.node].inputs)
              /\ \A c \in DOMAIN nodes : \A t \in Range(nodes[c].inputs) :
                     (\E m \in S : t \in Range(ns[m].outputs)) =>
                         ProducersOf(nodes, t) = {e.node}

\* The second partition between begin and finalize, consuming what the
\* first, finalized, fused node produces.
C17_Witness ==
    /\ pc = "finalize"
    /\ Len(hist.fused) = 2
    /\ FinalizedThisPass = {1}
    /\ Range(hist.fused[1].nodes) \cap DOMAIN nodes = {}
    /\ Range(subGraph.nodes) \subseteq DOMAIN nodes
    /\ \E t \in Range(nodes[fusedNode].inputs) :
          ProducersOf(nodes, t) = {hist.fused[1].node}

\* The placeholder fused node of the partition being fused is in the graph.
PlaceholderInGraph ==
    /\ fusedNode \in DOMAIN nodes
    /\ nodes[fusedNode].fused
    /\ nodes[fusedNode].name = subGraph.name
    /\ \E k \in FusedThisPass :
          hist.fused[k].partitionIndex = partitionIndex /\ hist.fused[k].node = fusedNode

\* Every initializer the current partition lists has been resolved: moved
\* into the partition's map when no other root partition lists it, copied
\* when shared and required, left out of the map otherwise.
OwnershipResolved ==
    \A w \in Range(CurrentPartition.inputs) \cap DOMAIN hist.passStart.initializers :
        IF Cardinality(ReferencingPartitions(w)) = 1
        THEN /\ w \in DOMAIN transferredInitializerMap[partitionIndex]
             /\ w \notin DOMAIN initializers
        ELSE w \in DOMAIN transferredInitializerMap[partitionIndex]
                 <=> w \in requiredInitializerMap

\* C18 as stated: while the placeholder fused node of a partition is in the
\* graph, the compiled operator of that partition exists (it was compiled
\* before the fused node was inserted).
C18_CompiledBeforePlaceholder ==
    (InFuse /\ PlaceholderInGraph) => compiled.compiledOperator

\* C18 amended: for each partition the steps run in the order ownership
\* resolution, BeginFuseSubGraph (the placeholder is inserted), descriptor
\* build, CompileGraph, kernel registration, FinalizeFuseSubGraph: the
\* initializers are resolved before the placeholder exists, the compiled
\* operator does not exist when the placeholder is inserted, and it exists
\* before the kernel is registered and before the fuse is finalized.
C18_StageOrder ==
    /\ pc \in {"inputs", "increase", "fuse"} =>
           ~\E k \in FusedThisPass : hist.fused[k].partitionIndex = partitionIndex
    /\ (pc \in {"increase", "fuse"} \/ InFuse) => OwnershipResolved
    /\ pc = "describe" =>
           PlaceholderInGraph /\ ~GraphDescBuilt /\ ~compiled.compiledOperator
    /\ pc = "compile" =>
           PlaceholderInGraph /\ GraphDescBuilt /\ ~compiled.compiledOperator
    /\ pc \in {"shapes", "register"} =>
           /\ PlaceholderInGraph /\ GraphDescBuilt /\ compiled.compiledOperator
           /\ MatchingKernels(fusedNode) = {}
           /\ Range(subGraph.nodes) \subseteq DOMAIN nodes
    /\ pc = "finalize" =>
           /\ PlaceholderInGraph /\ compiled.compiledOperator /\ compiled.outputShapes
           /\ MatchingKernels(fusedNode) # {}
           /\ Range(subGraph.nodes) \subseteq DOMAIN nodes
    /\ \A e \in registry : e.compiledExecutionPlanOperator /\ e.outputShapes

\* The placeholder is in the graph, the partition's initializer has been
\* moved into its map, and CompileGraph has not been called yet.
C18_Witness ==
    /\ pc = "compile"
    /\ PlaceholderInGraph
    /\ ~compiled.compiledOperator
    /\ hist.compileCalls = 0
    /\ OwnershipResolved
    /\ \E w \in DOMAIN transferredInitializerMap[partitionIndex] : w \notin DOMAIN initializers
    /\ Len(subGraph.nodes) = 2
    /\ Range(subGraph.nodes) \subseteq DOMAIN nodes

\* Slot by slot: constant-backed exactly when the slot's original input
\* name has an entry in the map, one slot per input name.
ConstnessMatchesMap(inputsConstant, names, map) ==
    /\ Len(inputsConstant) = Len(names)
    /\ \A slot \in DOMAIN inputsConstant :
           inputsConstant[slot] <=> names[slot] \in DOMAIN map

\* C19: the constness vector built for a fused node has one entry per input
\* of the fused node, and a slot is constant-backed exactly when the slot's
\* original input name has an entry in the partition's map; the registered
\* create function and the kernels made from it carry that vector with the
\* names and the map, so every constant-backed slot finds its tensor in
\* the kernel's map and only the other slots are live.
C19_InputConstness ==
    /\ (InFuse /\ GraphDescBuilt) =>
           /\ Len(compiled.inputsConstant) = Len(nodes[fusedNode].inputs)
           /\ ConstnessMatchesMap(compiled.inputsConstant, nodes[fusedNode].inputs,
                                  transferredInitializerMap[partitionIndex])
    /\ \A e \in registry :
           /\ ConstnessMatchesMap(e.inputsConstant, e.fusedNodeInputArgOriginalNames,
                                  e.transferredInitializerMap)
           /\ \A i \in DOMAIN nodes :
                  (nodes[i].fused /\ nodes[i].name = e.name) =>
                      e.fusedNodeInputArgOriginalNames = nodes[i].inputs
    /\ \A j \in DOMAIN kernels :
           /\ ConstnessMatchesMap(kernels[j].inputsConstant,
                                  kernels[j].fusedNodeInputArgOriginalNames,
                                  kernels[j].transferredInitializerMap)
           /\ \A slot \in DOMAIN kernels[j].inputsConstant :
                  kernels[j].inputsConstant[slot] =>
                      kernels[j].transferredInitializerMap[
                          kernels[j].fusedNodeInputArgOriginalNames[slot]].name
                        = kernels[j].fusedNodeInputArgOriginalNames[slot]

\* A kernel with a constant-backed slot (a transferred initializer), a live
\* slot fed by the graph input and a live slot that names a shared
\* initializer left in the graph.
C19_Witness ==
    /\ pc = "done" /\ status = "OK"
    /\ \E j \in DOMAIN kernels :
        LET k == kernels[j]
        IN /\ \E slot \in DOMAIN k.inputsConstant :
                 /\ k.inputsConstant[slot]
                 /\ k.fusedNodeInputArgOriginalNames[slot] \notin DOMAIN initializers
           /\ \E slot \in DOMAIN k.inputsConstant :
                 /\ ~k.inputsConstant[slot]
                 /\ k.fusedNodeInputArgOriginalNames[slot] = GraphInputName
           /\ \E slot \in DOMAIN k.inputsConstant :
                 /\ ~k.inputsConstant[slot]
                 /\ k.fusedNodeInputArgOriginalNames[slot] \in DOMAIN initializers

\* The create function registered for fused node k of the history.
RegisteredFor(k) == { e \in registry : e.name = hist.fused[k].name }

\* What holds in every state for the captures of the registered functions.
CapturesUnchanged ==
    /\ \A k \in FusedThisPass : \A e \in RegisteredFor(k) :
           /\ e.transferredInitializerMap
                = transferredInitializerMap[hist.fused[k].partitionIndex]
           /\ e.compiledExecutionPlanOperator
    /\ \A k1, k2 \in FusedThisPass :
           k1 # k2 => hist.fused[k1].partitionIndex # hist.fused[k2].partitionIndex
    /\ \A e1, e2 \in registry :
           e1 # e2 =>
               \A w \in DOMAIN e1.transferredInitializerMap
                          \cap DOMAIN e2.transferredInitializerMap :
                   w \in DOMAIN initializers
    /\ \A j \in DOMAIN kernels :
           \E e \in registry : kernels[j] = CreateFusedGraphKernel(e)

FusedOnThisGraph == { k \in DOMAIN hist.fused : hist.fused[k].load = hist.loads }

\* The name lists copied from the meta definition while a partition is
\* built are the partition's lists.
NamesCopiedFromRegion ==
    (pc \in {"compile", "shapes", "register", "finalize"}) =>
        /\ compiled.fusedNodeInputArgOriginalNames = hist.fused[Len(hist.fused)].inputs
        /\ compiled.fusedNodeOutputArgOriginalNames = hist.fused[Len(hist.fused)].outputs

PassedOver ==
    { p \in 0..(Len(hist.built) - 1) :
        \/ ~IsRootPartition(hist.built, p + 1)
        \/ ~hist.built[p + 1].isDmlGraphPartition }

\* C22: the initializer map lists, for each initializer, the root
\* partitions that take it as an input, DML graph partitions or not, and no
\* partition that was merged into another; every extraction, every counter
\* value read, every fused node and every create function of the pass
\* belongs to a root DML graph partition.
C22_OnlyRootGraphRegionsActedOn ==
    hist.pass >= 1 =>
        /\ DOMAIN initializerPartitionMap
             = { w \in DOMAIN hist.passStart.initializers : ReferencingPartitions(w) # {} }
        /\ \A w \in DOMAIN initializerPartitionMap :
              /\ Range(initializerPartitionMap[w]) = ReferencingPartitions(w)
              /\ Len(initializerPartitionMap[w]) = Cardinality(ReferencingPartitions(w))
        /\ \A k \in ExtractedThisPass : hist.extracted[k].partitionIndex \notin PassedOver
        /\ \A k \in FusedThisPass : hist.fused[k].partitionIndex \notin PassedOver
        /\ (pc \in {"inputs", "increase", "fuse"}) => partitionIndex \notin PassedOver
        /\ \A p \in PassedOver \cap DOMAIN transferredInitializerMap :
              transferredInitializerMap[p] = EmptyMap
        /\ Cardinality(registry \ hist.passStart.registry) <= Cardinality(FusedThisPass)
        /\ \A e \in registry \ hist.passStart.registry :
              \E k \in FusedThisPass : hist.fused[k].name = e.name
        /\ \A i \in DOMAIN nodes :
              (nodes[i].fused /\ i \notin DOMAIN hist.passStart.nodes) =>
                  \E k \in FusedThisPass : hist.fused[k].node = i
        /\ partitionKernelPrefixVal - hist.passStart.partitionKernelPrefixVal
             = Cardinality(FusedThisPass) + (IF pc = "fuse" THEN 1 ELSE 0)

\* A finished pass over a partition merged into another: the initializer
\* the merged partition and its root both take was counted once, for the
\* root, and moved to the root's map.
C22_Witness ==
    /\ pc = "done" /\ status = "OK"
    /\ FusedThisPass # {}
    /\ \E p \in PassedOver : \E w \in DOMAIN hist.passStart.initializers :
          /\ ~IsRootPartition(hist.built, p + 1)
          /\ w \in Range(hist.built[p + 1].inputs)
          /\ initializerPartitionMap[w] = <<GetRootMergedPartition(hist.built, p + 1) - 1>>
          /\ w \notin DOMAIN initializers

\* A finished pass over a root partition outside DML that shares an
\* initializer with a fused one: the initializer was counted twice and
\* stayed in the graph.
C22_WitnessNotNative ==
    /\ pc = "done" /\ status = "OK"
    /\ FusedThisPass # {}
    /\ \E q \in PassedOver : \E w \in DOMAIN initializers :
          /\ IsRootPartition(hist.built, q + 1)
          /\ w \in Range(hist.built[q + 1].inputs)
          /\ Len(initializerPartitionMap[w]) = 2

\* The pass has ended: it returned OK or an error, or an exception left it.
PassEnded == pc \in {"done", "returned", "threw"}

\* The counter values the fusions of the current pass were given.
PrefixValsThisPass == { hist.fused[k].prefixVal : k \in FusedThisPass }

\* What holds of the counter in every state of a pass.
CounterCountsAttempts ==
    /\ \A k \in FusedThisPass : hist.fused[k].prefixVal < partitionKernelPrefixVal
    /\ PrefixValsThisPass
         = hist.passStart.partitionKernelPrefixVal
             .. (hist.passStart.partitionKernelPrefixVal + Cardinality(FusedThisPass) - 1)
    /\ PassEnded =>
          partitionKernelPrefixVal
            = hist.passStart.partitionKernelPrefixVal + Cardinality(FusedThisPass)

\* C23: no step decreases the counter; the only step that changes it adds
\* one, after the value was read for the partition's name and before the
\* fuse of that partition begins; when a pass has ended the counter is its
\* value at the start of the pass plus the number of fusions the pass
\* began, the one that threw included.
C23_CounterCountsAttempts ==
    /\ []CounterCountsAttempts
    /\ [][ \/ partitionKernelPrefixVal' = partitionKernelPrefixVal
           \/ /\ partitionKernelPrefixVal' = partitionKernelPrefixVal + 1
              /\ hist.prefixVal = partitionKernelPrefixVal
              /\ pc = "increase" /\ pc' = "fuse" ]_vars

\* A pass that fused one partition and threw while it built the second:
\* the counter went up by two.
C23_Witness ==
    /\ pc = "threw"
    /\ Cardinality(FusedThisPass) = 2
    /\ partitionKernelPrefixVal = hist.passStart.partitionKernelPrefixVal + 2
    /\ Cardinality({ i \in DOMAIN nodes : nodes[i].fused }) = 2
    /\ Cardinality(registry) = 1

\* Sequence d holds, element for element and in order, the elements of g,
\* each with the tag given.
SameEdges(d, g, tag) ==
    /\ Len(d) = Len(g)
    /\ \A i \in DOMAIN d : d[i].Type = tag /\ d[i].Desc = g[i]

\* C24: the descriptor converted for the device compiler has one operator
\* node for each node of the built descriptor and one edge for each of its
\* input, output and intermediate edges, in the same order, each edge with
\* the tag of its own class and each count equal to the number of elements;
\* InputCount and OutputCount are the numbers of inputs and outputs of the
\* fused node.
C24_DescriptorConverted ==
    (pc \in {"compile", "shapes", "register", "finalize"} \/ (pc = "threw" /\ GraphDescBuilt)) =>
        LET d == compiled.dmlGraphDesc
            g == compiled.graphDesc
        IN /\ g = GraphDescBuilder_BuildGraphDesc(hist.fuseStart.nodes, subGraph)
           /\ d.NodeCount = Len(g.nodes) /\ Len(d.Nodes) = Len(g.nodes)
           /\ \A i \in DOMAIN d.Nodes :
                 /\ d.Nodes[i].Type = "DML_GRAPH_NODE_TYPE_OPERATOR"
                 /\ d.Nodes[i].Desc.Operator = g.nodes[i].op
           /\ d.InputEdgeCount = Len(g.inputEdges)
           /\ SameEdges(d.InputEdges, g.inputEdges, "DML_GRAPH_EDGE_TYPE_INPUT")
           /\ d.OutputEdgeCount = Len(g.outputEdges)
           /\ SameEdges(d.OutputEdges, g.outputEdges, "DML_GRAPH_EDGE_TYPE_OUTPUT")
           /\ d.IntermediateEdgeCount = Len(g.intermediateEdges)
           /\ SameEdges(d.IntermediateEdges, g.intermediateEdges,
                        "DML_GRAPH_EDGE_TYPE_INTERMEDIATE")
           /\ d.InputCount = Len(nodes[fusedNode].inputs)
           /\ d.OutputCount = Len(nodes[fusedNode].outputs)

\* A descriptor of three operators handed to the compiler, with more input
\* edges than the fused node has inputs and more than one intermediate edge.
C24_Witness ==
    /\ pc = "shapes"
    /\ compiled.dmlGraphDesc.NodeCount = 3
    /\ compiled.dmlGraphDesc.InputEdgeCount > compiled.dmlGraphDesc.InputCount
    /\ compiled.dmlGraphDesc.InputCount > 0
    /\ compiled.dmlGraphDesc.OutputEdgeCount = compiled.dmlGraphDesc.OutputCount
    /\ compiled.dmlGraphDesc.OutputEdgeCount > 0
    /\ compiled.dmlGraphDesc.IntermediateEdgeCount > 1

\* The nodes of the graph that are no fused node and take an initializer
\* the graph held when the pass began but holds no more.
UnfusedNodesMissingConstant ==
    { i \in DOMAIN nodes :
        /\ ~nodes[i].fused
        /\ \E w \in Range(nodes[i].inputs) :
              w \in DOMAIN hist.passStart.initializers /\ w \notin DOMAIN initializers }

\* C25: when the pass has ended, every node of the graph that is not a
\* fused node finds each initializer it takes as input in the graph.
C25_UnfusedKeepConstants ==
    PassEnded => UnfusedNodesMissingConstant = {}

\* The same for a pass that returned OK, where it holds: an initializer a
\* node outside the fused partitions takes is listed by a second root
\* partition and is copied, not extracted.
UnfusedKeepConstantsOnSuccess ==
    (pc = "done" /\ status = "OK") => UnfusedNodesMissingConstant = {}

\* A pass that returned OK, fused a partition and left a node outside that
\* takes an initializer the fused partition takes too.
UnfusedKeepConstantsOnSuccessWitness ==
    /\ pc = "done" /\ status = "OK"
    /\ \E k \in FusedThisPass : \E i \in DOMAIN nodes : \E w \in DOMAIN initializers :
          /\ ~nodes[i].fused
          /\ w \in Range(nodes[i].inputs)
          /\ w \in Range(hist.fused[k].inputs)

\* The registered create functions whose captured map holds initializer w.
HoldersOf(w) == { e \in registry : w \in DOMAIN e.transferredInitializerMap }

\* C26: when a pass has returned OK, every initializer the graph held when
\* the pass began is in the graph as it was, or is held, as it was, in the
\* map of exactly one registered create function.
C26_NoConstantLost ==
    (pc = "done" /\ status = "OK") =>
        \A w \in DOMAIN hist.passStart.initializers :
            \/ /\ w \in DOMAIN initializers
               /\ initializers[w] = hist.passStart.initializers[w]
            \/ /\ Cardinality(HoldersOf(w)) = 1
               /\ \A e \in HoldersOf(w) :
                     e.transferredInitializerMap[w] = hist.passStart.initializers[w]

\* A pass that returned OK with one initializer moved out of the graph into
\* the map of one create function and another, shared by two fused
\* partitions, still in the graph and copied into both maps.
C26_Witness ==
    /\ pc = "done" /\ status = "OK"
    /\ \E w \in DOMAIN hist.passStart.initializers :
          w \notin DOMAIN initializers /\ Cardinality(HoldersOf(w)) = 1
    /\ \E w \in DOMAIN initializers : Cardinality(HoldersOf(w)) = 2

\* The counter value and the name each fused node of either invocation was
\* given; the two invocations work on two graphs.
CounterValuesObtained ==
    { <<"first", k, hist.fused[k].prefixVal, hist.fused[k].name>> : k \in DOMAIN hist.fused }
      \cup { <<"second", k, other.fused[k].prefixVal, other.fused[k].name>> :
                k \in DOMAIN other.fused }

\* C27: when two invocations of the pass on one provider take their steps
\* in any order, no two fused nodes were given the same counter value or
\* the same name, and no invocation reads the counter between the read and
\* the increase of the other.
C27_InterleavedNamesDistinct ==
    /\ \A a, b \in CounterValuesObtained :
          a # b => (a[3] # b[3] /\ a[4] # b[4])
    /\ ~(pc = "increase" /\ other.pc = "increase")

\* The step is an ExtractInitializedTensor that failed: the map entry it
\* was to fill is there and empty.
ExtractionFailedInStep ==
    /\ pc = "inputs"
    /\ partitionIndex \in DOMAIN transferredInitializerMap'
    /\ \E w \in DOMAIN transferredInitializerMap'[partitionIndex] :
          /\ transferredInitializerMap'[partitionIndex][w] = EmptyTensorProto
          /\ w \notin DOMAIN transferredInitializerMap[partitionIndex]

\* What holds once the pass has returned the error of an extraction.
ReturnedOnExtractionError ==
    (pc = "returned") =>
        /\ status = "error"
        /\ partitionKernelPrefixVal
             = hist.passStart.partitionKernelPrefixVal + Cardinality(FusedThisPass)
        /\ \A k \in FusedThisPass :
              /\ hist.fused[k].partitionIndex < partitionIndex
              /\ hist.fused[k].node \in DOMAIN nodes
              /\ nodes[hist.fused[k].node].fused
              /\ Range(hist.fused[k].nodes) \cap DOMAIN nodes = {}
              /\ Cardinality(RegisteredFor(k)) = 1
        /\ \A k \in ExtractedThisPass : hist.extracted[k].partitionIndex <= partitionIndex
        /\ Cardinality({ i \in DOMAIN nodes : nodes[i].fused })
             = Cardinality({ i \in DOMAIN hist.passStart.nodes : hist.passStart.nodes[i].fused })
                 + Cardinality(FusedThisPass)
        /\ Cardinality(registry)
             = Cardinality(hist.passStart.registry) + Cardinality(FusedThisPass)
        /\ \A p \in DOMAIN transferredInitializerMap : p <= partitionIndex
        /\ Range(hist.built[partitionIndex + 1].nodeIndices) \subseteq DOMAIN nodes

\* C28: a failed extraction makes the pass return the error in that very
\* step, with the counter, the nodes and the registry as they were; once
\* returned the pass takes no further step; the counter has advanced only
\* for the partitions fused before, which stay fused with their kernels
\* registered, and the failing partition has no fused node and no kernel.
C28_ExtractionErrorReturned ==
    /\ []ReturnedOnExtractionError
    /\ [][ExtractionFailedInStep => (pc' = "returned" /\ status' = "error")]_vars
    /\ [][(pc' = "returned") =>
             /\ ExtractionFailedInStep
             /\ UNCHANGED << nodes, registry, partitionKernelPrefixVal, partitionIndex >>]_vars
    /\ [][pc # "returned"]_vars

\* The pass returned the error of the second partition's extraction: the
\* first partition is fused, a third partition, also a DML graph partition,
\* was never reached.
C28_Witness ==
    /\ pc = "returned" /\ status = "error"
    /\ Cardinality(FusedThisPass) = 1
    /\ partitionKernelPrefixVal = hist.passStart.partitionKernelPrefixVal + 1
    /\ \E p \in (partitionIndex + 1)..(Len(hist.built) - 1) :
          hist.built[p + 1].isDmlGraphPartition /\ IsRootPartition(hist.built, p + 1)

\* C29: no step of the pass writes the caller's flag: from the call of
\* ApplyImpl on, through fusions and extractions and on every way out, the
\* flag has the value it had when ApplyImpl was called.
C29_ModifiedUntouched ==
    /\ [](hist.pass >= 1 => modified = hist.passStart.modified)
    /\ [][modified' = modified]_vars

\* ApplyImpl has returned OK after it fused a partition and extracted an
\* initializer, and the flag the caller passed as FALSE is FALSE.
C29_Witness ==
    /\ pc = "done" /\ status = "OK"
    /\ FusedThisPass # {}
    /\ ExtractedThisPass # {}
    /\ ~modified /\ ~hist.passStart.modified

\* The same for a caller that passed TRUE, and for the two other ways out.
C29_WitnessTrue ==
    /\ pc = "done" /\ status = "OK"
    /\ FusedThisPass # {}
    /\ ExtractedThisPass # {}
    /\ modified /\ hist.passStart.modified
C29_WitnessThrew == pc = "threw" /\ modified /\ ExtractedThisPass # {}
C29_WitnessReturned == pc = "returned" /\ modified /\ FusedThisPass # {}

\* assert(iter != initializerPartitionMap.end()): the input the ownership
\* loop is at, when the graph holds an initializer of that name, has an
\* entry in the map built before the loop.
AssertInitializerInMap ==
    (pc = "inputs" /\ ~InputsResolved(CurrentPartition, inputIndex)
        /\ CurrentInput \in DOMAIN initializers) =>
            /\ CurrentInput \in DOMAIN initializerPartitionMap
            /\ Len(initializerPartitionMap[CurrentInput]) >= 1

\* assert(partition->IsDmlGraphPartition()) on entry of
\* FusePartitionAndRegisterKernel.
AssertIsDmlGraphPartition ==
    (pc = "fuse") => CurrentPartition.isDmlGraphPartition

\* C30: in every state the pass reaches, the initializer found for the
\* input the ownership loop is at has an entry in the initializer map, and
\* the partition FusePartitionAndRegisterKernel is entered for is a DML
\* graph partition; the ownership loop itself runs only for a root DML
\* graph partition.
C30_AssertionsHold ==
    /\ AssertInitializerInMap
    /\ AssertIsDmlGraphPartition
    /\ (pc = "inputs") =>
          /\ IsRootPartition(partitions, partitionIndex + 1)
          /\ CurrentPartition.isDmlGraphPartition

\* FusePartitionAndRegisterKernel is entered for a partition that found its
\* initializer in the map after an earlier partition had extracted one.
C30_Witness ==
    /\ pc = "fuse"
    /\ partitionIndex > 0
    /\ \E k1, k2 \in ExtractedThisPass :
          /\ hist.extracted[k1].partitionIndex < partitionIndex
          /\ hist.extracted[k2].partitionIndex = partitionIndex

====
